---- MODULE Spec2Model ----
(***************************************************************************)
(* Model of the phishing-awareness assessment tool.                        *)
(*                                                                         *)
(*   Spec        one PhishingTester object: load_components, then either   *)
(*               run_assessment (profile, quiz, results, feedback, files)  *)
(*               or the quiz methods called on their own.                  *)
(*   SpecDb      a sequence of save_to_assessment_database calls on the    *)
(*               assessment database file.                                 *)
(*   SpecTrainer PhishingModelTrainer.train_model, step by step.           *)
(*   SpecPaths   either of the two: a tester session or a training run.    *)
(*   SpecMenu    the menu loop of the front ends.                          *)
(*   SpecRuns    train_model in a directory that may hold the artifacts of *)
(*               an earlier run, run once or twice on the same files.      *)
(*   SpecLive    Spec with a user who eventually types a valid choice.     *)
(*                                                                         *)
(* Text is a sequence of character codes (ASCII), so that lower(),         *)
(* strip(), split() and the substring test are computed, not assumed.      *)
(* A Python dict is a sequence of entries in insertion order.              *)
(* A percentage is an exact fraction [num, den] in lowest terms, den > 0.  *)
(***************************************************************************)
EXTENDS Integers, Sequences, FiniteSets, TLC

VARIABLES
    sheet_file,       \* content of answer_sheetphi.json
    model_file,       \* the object in phishing_model.pkl (NoModel when it cannot be loaded)
    answer_sheet,     \* PhishingTester.answer_sheet: the question texts that are keys
    questions_data,   \* PhishingTester.questions_data
    model,            \* PhishingTester.model (NoModel for None)
    feature_names,    \* PhishingTester.feature_names (<<>> for None)
    user_profile,     \* PhishingTester.user_profile (<<>> for None)
    entry,            \* which method the caller invoked on the object
    pc,               \* position of the session
    qi,               \* 1-based index of the question being prompted
    last_input,       \* what the user typed at the last prompt
    user_responses,   \* conduct_quiz: user_responses
    user_scores,      \* conduct_quiz: user_scores
    chosen_marks,     \* history: marks of the option accepted at each question
    choices,          \* history: the number accepted at each question's prompt
    total_score,      \* calculate_results: total_score
    percentage,       \* calculate_results: percentage
    overall_level,    \* calculate_results: overall_level
    priority_areas,   \* provide_feedback: improvement_areas[:3] after the sort
    results_file,     \* phishing_assessment_results.json (<<>> when absent)
    database,         \* phishing_assessment_database.json
    clock,            \* datetime.now(), in seconds
    submissions,      \* history: the user_data of every save call, in order
    bank_file,        \* content of ExplanationBankphi.json
    explanation_bank, \* PhishingTester.explanation_bank (<<>> for None and [])
    feedback,         \* provide_feedback: the explanations and guidance printed
    menu,             \* main(): the menu loop of the front end
    dataset_file,     \* the rows of the CSV at dataset_path
    answer_weights,   \* PhishingModelTrainer.answer_weights
    questions,        \* PhishingModelTrainer.questions
    df,               \* PhishingModelTrainer.df
    detailed_scores,  \* PhishingModelTrainer.detailed_scores
    X,                \* prepare_features: the feature matrix X
    feature_names_file, \* phishing_feature_names.pkl (<<>> when absent)
    runs,             \* history: the awareness_level column of each earlier run
    t_pc              \* position of train_model

vars == <<sheet_file, model_file, answer_sheet, questions_data, model,
          feature_names, user_profile, entry, pc, qi, last_input, user_responses,
          user_scores, chosen_marks, choices, total_score, percentage, overall_level,
          priority_areas, results_file, database, clock, submissions,
          bank_file, explanation_bank, feedback, menu,
          dataset_file, answer_weights, questions, df, detailed_scores, X,
          feature_names_file, runs, t_pc>>

trainerVars == <<dataset_file, answer_weights, questions, df, detailed_scores, X,
                 feature_names_file, runs, t_pc>>

bankVars == <<bank_file, explanation_bank, feedback>>

-----------------------------------------------------------------------------
(* Bounds                                                                  *)

MaxChoice == 4      \* integers typed at a prompt range over 0..MaxChoice
MaxSaves == 3       \* save_to_assessment_database calls in one behaviour

-----------------------------------------------------------------------------
(* Text                                                                    *)

\* str.lower() on ASCII text
Lower(s) == [i \in DOMAIN s |-> IF s[i] \in 65..90 THEN s[i] + 32 ELSE s[i]]

IsSpace(c) == c = 32

RECURSIVE LStrip(_)
LStrip(s) == IF s # <<>> /\ IsSpace(Head(s)) THEN LStrip(Tail(s)) ELSE s

RECURSIVE RStrip(_)
RStrip(s) ==
    IF s # <<>> /\ IsSpace(s[Len(s)]) THEN RStrip(SubSeq(s, 1, Len(s) - 1)) ELSE s

\* str.strip()
Strip(s) == RStrip(LStrip(s))

\* str.split(): the maximal runs of non-space characters, in order
RECURSIVE SplitFrom(_, _, _)
SplitFrom(s, cur, acc) ==
    IF s = <<>> THEN (IF cur = <<>> THEN acc ELSE Append(acc, cur))
    ELSE IF IsSpace(Head(s))
         THEN SplitFrom(Tail(s), <<>>, IF cur = <<>> THEN acc ELSE Append(acc, cur))
         ELSE SplitFrom(Tail(s), Append(cur, Head(s)), acc)

Split(s) == SplitFrom(s, <<>>, <<>>)

\* Python's `w in s` on strings: w occurs in s as a contiguous substring
Contains(w, s) ==
    \E k \in 0..(Len(s) - Len(w)) : SubSeq(s, k + 1, k + Len(w)) = w

\* s[:n]
Take(s, n) == SubSeq(s, 1, IF Len(s) < n THEN Len(s) ELSE n)

-----------------------------------------------------------------------------
(* Exact fractions for percentages                                         *)

RECURSIVE GCD(_, _)
GCD(a, b) == IF b = 0 THEN a ELSE GCD(b, a % b)

Abs(a) == IF a < 0 THEN -a ELSE a

\* n / d in lowest terms, d > 0
Frac(n, d) ==
    LET g == GCD(Abs(n), d) IN [num |-> n \div g, den |-> d \div g]

Zero == [num |-> 0, den |-> 1]

\* p >= k and p < k for an integer k
PctGE(p, k) == p.num >= k * p.den
PctLT(p, k) == p.num < k * p.den

RECURSIVE SumSeq(_)
SumSeq(s) == IF s = <<>> THEN 0 ELSE Head(s) + SumSeq(Tail(s))

-----------------------------------------------------------------------------
(* Python dicts: entries [key, value] in insertion order                   *)

DictHas(d, k) == \E i \in DOMAIN d : d[i].key = k

\* d[k] = v: an existing key keeps its position, a new key goes last
DictPut(d, k, v) ==
    IF DictHas(d, k)
    THEN [i \in DOMAIN d |-> IF d[i].key = k THEN [key |-> k, value |-> v] ELSE d[i]]
    ELSE Append(d, [key |-> k, value |-> v])

DictGet(d, k) == (CHOOSE i \in DOMAIN d : d[i].key = k)

-----------------------------------------------------------------------------
(* Inputs of the runtime path: answer sheets, profiles, typed choices      *)

Txt2(a, b) == <<a, b>>

\* question texts "Q1".."Q4", option texts "a".."c", names "Al", "al", "AL", "Bo"
QT1 == Txt2(81, 49)
QT2 == Txt2(81, 50)
QT3 == Txt2(81, 51)
QT4 == Txt2(81, 52)
NameAl == Txt2(65, 108)
Nameal == Txt2(97, 108)
NameAL == Txt2(65, 76)
NameBo == Txt2(66, 111)

Opt(t, m, lv, lb) == [text |-> t, marks |-> m, level |-> lv, label |-> lb]

OptsGraded == << Opt(<<97>>, 10, "advanced", "A"),
                 Opt(<<98>>, 5, "intermediate", "B"),
                 Opt(<<99>>, 0, "wrong", "C") >>

OptsOdd == << Opt(<<97>>, 2, "basic", "A"),
              Opt(<<98>>, 7, "intermediate", "B") >>

OptsTwo == << Opt(<<97>>, 10, "advanced", "A"),
              Opt(<<98>>, 0, "wrong", "B") >>

QItem(t, id, opts) == [question |-> t, questionId |-> id, options |-> opts]

SheetFile(ex, hq, qs) == [exists |-> ex, has_questions |-> hq, questions |-> qs]

\* no answer_sheetphi.json
SheetAbsent == SheetFile(FALSE, FALSE, <<>>)
\* a JSON object without a 'questions' list
SheetNoList == SheetFile(TRUE, FALSE, <<>>)
\* 'questions': []
SheetEmpty == SheetFile(TRUE, TRUE, <<>>)
\* one question whose marks give 20% and 70%
SheetOne == SheetFile(TRUE, TRUE, << QItem(QT1, QT1, OptsOdd) >>)
SheetTwo == SheetFile(TRUE, TRUE,
    << QItem(QT1, QT1, OptsGraded), QItem(QT2, <<81, 48, 50>>, OptsOdd) >>)
SheetFour == SheetFile(TRUE, TRUE,
    << QItem(QT1, QT1, OptsGraded), QItem(QT2, QT2, OptsGraded),
       QItem(QT3, QT3, OptsGraded), QItem(QT4, QT4, OptsGraded) >>)
\* two question objects with the same question text
SheetSameText == SheetFile(TRUE, TRUE,
    << QItem(QT1, QT1, OptsTwo), QItem(QT1, QT2, OptsTwo) >>)
\* a question object without text, and a question without options
SheetRagged == SheetFile(TRUE, TRUE,
    << QItem(<<>>, QT1, OptsTwo), QItem(QT2, QT2, OptsTwo),
       QItem(QT3, QT3, <<>>) >>)

\* question texts "Email" and "Link", the question id "Q3x"
TEmail == <<69, 109, 97, 105, 108>>
TLink == <<76, 105, 110, 107>>
TQ3x == <<81, 51, 120>>

\* options without a label, one of them with a level outside the usual four
OptsNoLabel == << Opt(<<97>>, 10, "advanced", ""),
                  Opt(<<98>>, 0, "novice", "") >>

\* a question object without questionId, and a question whose options have
\* no label
SheetNoIds == SheetFile(TRUE, TRUE,
    << QItem(TEmail, <<>>, OptsTwo), QItem(TLink, QT2, OptsNoLabel) >>)

SheetFiles == {SheetAbsent, SheetNoList, SheetEmpty, SheetOne, SheetTwo, SheetFour,
               SheetSameText, SheetRagged, SheetNoIds}

-----------------------------------------------------------------------------
(* ExplanationBankphi.json                                                 *)

BankEntry(id, opt, g, p, e, text) ==
    [questionId |-> id, option |-> opt,
     profile |-> [gender |-> g, proficiency |-> p, education |-> e],
     explanation |-> text]

BankFile(ex, es) == [exists |-> ex, entries |-> es]

\* no ExplanationBankphi.json
BankAbsent == BankFile(FALSE, <<>>)
\* the file holds []
BankEmpty == BankFile(TRUE, <<>>)
\* entries for Q1/B (written "Q01" and "Q1"), Q2/A (written "Q2" and "Q002")
\* and "Q3x"/B; for Q2/A the first entry fits no profile of the model
BankMixed == BankFile(TRUE,
    << BankEntry(<<81, 48, 49>>, "B", "Female", "High Education", "Degree", "e1"),
       BankEntry(QT1, "B", "Male", "School", "O/L", "e2"),
       BankEntry(QT2, "A", "Male", "High Education", "O/L", "e3"),
       BankEntry(<<81, 48, 48, 50>>, "A", "Female", "High Education", "Degree", "e4"),
       BankEntry(TQ3x, "B", "Male", "School", "O/L", "e5") >>)

BankFiles == {BankAbsent, BankEmpty, BankMixed}

Profile(n, g, e, p) == [name |-> n, gender |-> g, education |-> e, proficiency |-> p]

\* the profiles collect_user_profile can return, for the names tried
Names == {NameAl, Nameal, NameBo}
Profiles == {Profile(n, "Male", "O/L", "School") : n \in Names}
            \cup {Profile(n, "Female", "Degree", "High Education") : n \in Names}

\* what int(input()) sees: text that is not an integer, or an integer
NotANumber == -1000
TypedInputs == {NotANumber} \cup (0..MaxChoice)

-----------------------------------------------------------------------------
(* PhishingTester, pure parts                                              *)

\* options_dict of one question object
OptionsDict(opts) ==
    LET RECURSIVE Build(_, _)
        Build(rest, d) ==
            IF rest = <<>> THEN d
            ELSE Build(Tail(rest),
                       DictPut(d, Head(rest).text,
                               [weight |-> Head(rest).marks, level |-> Head(rest).level]))
    IN Build(opts, <<>>)

\* load_components: the question objects kept for the quiz
LoadedQuestions(f) ==
    IF f.exists /\ f.has_questions
    THEN SelectSeq(f.questions, LAMBDA q : q.question # <<>>)
    ELSE <<>>

\* load_components: the answer_sheet dict, question text -> options_dict
LoadedAnswerSheet(f) ==
    LET RECURSIVE Build(_, _)
        Build(rest, d) ==
            IF rest = <<>> THEN d
            ELSE Build(Tail(rest),
                       DictPut(d, Head(rest).question, OptionsDict(Head(rest).options)))
    IN Build(LoadedQuestions(f), <<>>)

Scores(us) == [i \in DOMAIN us |-> us[i].value.score]

\* variant: the boundaries belong to the lower tier
TierForStrict(p) ==
    IF p.num > 75 * p.den THEN "Expert"
    ELSE IF p.num > 50 * p.den THEN "Intermediate"
    ELSE IF p.num > 25 * p.den THEN "Basic"
    ELSE "Beginner"

\* calculate_results, the if/elif chain on percentage
TierFor(p) ==
    IF PctGE(p, 75) THEN "Expert"
    ELSE IF PctGE(p, 50) THEN "Intermediate"
    ELSE IF PctGE(p, 25) THEN "Basic"
    ELSE "Beginner"

\* variant: the empty case falls through to the tier of the lowest non-zero band
calculate_results_no_guard(us) ==
    IF us = <<>> THEN <<0, Zero, "Basic">>
    ELSE LET total == SumSeq(Scores(us))
             max_possible_score == Len(us) * 10
         IN <<total, Frac(total * 100, max_possible_score),
              TierFor(Frac(total * 100, max_possible_score))>>

\* variant: the tier is the class the loaded classifier predicts, the nearest
\* class it knows at or below the tier of the table
calculate_results_by_model(us) ==
    IF us = <<>> THEN <<0, Zero, "Beginner">>
    ELSE LET total == SumSeq(Scores(us))
             max_possible_score == Len(us) * 10
             pct == IF max_possible_score > 0
                    THEN Frac(total * 100, max_possible_score) ELSE Zero
             order == <<"Beginner", "Basic", "Intermediate", "Expert">>
             rank(t) == CHOOSE k \in 1..4 : order[k] = t
             known == {k \in 1..rank(TierFor(pct)) : order[k] \in model.classes}
         IN <<total, pct,
              IF model.none \/ known = {} THEN TierFor(pct)
              ELSE order[CHOOSE k \in known : \A j \in known : j <= k]>>

\* calculate_results(user_scores) = <<total_score, percentage, overall_level>>
calculate_results(us) ==
    IF us = <<>> THEN <<0, Zero, "Beginner">>
    ELSE LET total == SumSeq(Scores(us))
             max_possible_score == Len(us) * 10
             pct == IF max_possible_score > 0
                    THEN Frac(total * 100, max_possible_score) ELSE Zero
         IN <<total, pct, TierFor(pct)>>

\* list.sort(key=score): stable insertion of x into an ascending list
RECURSIVE InsertByScore(_, _)
InsertByScore(sorted, x) ==
    IF sorted = <<>> THEN <<x>>
    ELSE IF x.score < Head(sorted).score THEN <<x>> \o sorted
    ELSE <<Head(sorted)>> \o InsertByScore(Tail(sorted), x)

RECURSIVE SortByScore(_)
SortByScore(s) ==
    IF s = <<>> THEN <<>>
    ELSE InsertByScore(SortByScore(SubSeq(s, 1, Len(s) - 1)), s[Len(s)])

\* provide_feedback: the entries appended to improvement_areas
ImprovementAreas(us) ==
    LET area(e) == [question |-> e.key, current_level |-> e.value.level,
                    score |-> e.value.score]
        all == [i \in DOMAIN us |-> area(us[i])]
    IN SelectSeq(all, LAMBDA a : a.score < 10)

\* variant: the sort is left out
PriorityAreasUnsorted(us) == Take(ImprovementAreas(us), 3)

\* provide_feedback: the areas shown under PRIORITY IMPROVEMENT AREAS
PriorityAreas(us) == Take(SortByScore(ImprovementAreas(us)), 3)

-----------------------------------------------------------------------------
(* The assessment database file                                            *)

NoProfile == [name |-> <<>>, gender |-> "", education |-> "", proficiency |-> ""]

UserData(prof, total, pct, lvl) ==
    [profile |-> prof, total_score |-> total, percentage |-> pct, overall_level |-> lvl]

NoData == UserData(NoProfile, 0, Zero, "")

DbAbsent == [exists |-> FALSE, metadata |-> [created |-> 0], assessments |-> <<>>]

AssessmentRecord(ud, now) ==
    [timestamp |-> now,
     name |-> ud.profile.name,
     gender |-> ud.profile.gender,
     education_level |-> ud.profile.education,
     proficiency |-> ud.profile.proficiency,
     total_score |-> ud.total_score,
     percentage |-> ud.percentage,
     overall_knowledge_level |-> ud.overall_level,
     category |-> "Phishing Awareness"]

\* variant: the names are compared as typed
SameNameExact(a, b) == a = b

\* the test of the update loop: existing['name'].lower() == record['name'].lower()
SameName(a, b) == Lower(a) = Lower(b)

\* variant: an existing record is dropped and the new one goes last
save_move_to_end(db, ud, now) ==
    LET rec == AssessmentRecord(ud, now)
        loaded == IF db.exists THEN db
                  ELSE [exists |-> TRUE, metadata |-> [created |-> now],
                        assessments |-> <<>>]
        kept == SelectSeq(loaded.assessments, LAMBDA r : ~SameName(r.name, rec.name))
    IN [loaded EXCEPT !.assessments = Append(kept, rec)]

\* save_to_assessment_database(user_data) at time now: the file it writes
save_to_assessment_database(db, ud, now) ==
    LET rec == AssessmentRecord(ud, now)
        loaded == IF db.exists THEN db
                  ELSE [exists |-> TRUE, metadata |-> [created |-> now],
                        assessments |-> <<>>]
        old == loaded.assessments
        hits == {i \in DOMAIN old : SameName(old[i].name, rec.name)}
        first == CHOOSE i \in hits : \A j \in hits : i <= j
        new == IF hits # {}
               THEN [i \in DOMAIN old |-> IF i = first THEN rec ELSE old[i]]
               ELSE Append(old, rec)
    IN [loaded EXCEPT !.assessments = new]

\* a database file written by an earlier run of the program
DbEarlier ==
    save_to_assessment_database(DbAbsent,
        UserData(Profile(NameAL, "Female", "A/L", "School"), 5, Frac(50, 1), "Intermediate"), 0)

-----------------------------------------------------------------------------
(* PhishingTester: the explanation of an answer                            *)

\* re.match(r"Q0*(\d+)", id) and f"Q{match.group(1)}" for a text that starts
\* with 'Q': the zeros after the Q are dropped (one is kept when only zeros
\* follow), the digits are kept, anything after the digits is dropped; a text
\* without a digit after the Q, or without the Q, is left as it is
NormalizeQid(id) ==
    IF id # <<>> /\ Head(id) = 81
    THEN LET rest == Tail(id)
             d == Cardinality({n \in 1..Len(rest) :
                                  \A j \in 1..n : rest[j] \in 48..57})
             z == Cardinality({n \in 1..Len(rest) : \A j \in 1..n : rest[j] = 48})
         IN IF d = 0 THEN id
            ELSE <<81>> \o (IF z = d THEN <<48>> ELSE SubSeq(rest, z + 1, d))
    ELSE id

\* get_detailed_explanation: the text used when the bank is empty or missing
get_detailed_explanation(question_id) ==
    [kind |-> "DETAILED", entry |-> 0,
     header |-> "Detailed guidance for {question_id}:",
     body |-> "Review which phishing tactics are used and why they work."]

\* the profile test of the first pass
ProfileMatch(exp_profile, profile) ==
    /\ exp_profile.gender = profile.gender
    /\ exp_profile.proficiency = profile.proficiency
    /\ exp_profile.education = profile.education

\* variant: one pass, the first entry of the question and option decides
get_explanation_from_bank_single_pass(bank, question_id, option_label, profile) ==
    LET normalized_qid == NormalizeQid(question_id)
        hits == {k \in DOMAIN bank :
                    /\ NormalizeQid(bank[k].questionId) = normalized_qid
                    /\ bank[k].option = option_label}
        first == CHOOSE k \in hits : \A j \in hits : k <= j
    IN IF bank = <<>> THEN get_detailed_explanation(question_id)
       ELSE IF hits # {} /\ ProfileMatch(bank[first].profile, profile)
       THEN [kind |-> "PERSONALIZED", entry |-> first,
             header |-> "PERSONALIZED EXPLANATION:", body |-> bank[first].explanation]
       ELSE IF hits # {}
       THEN [kind |-> "RELATED", entry |-> first,
             header |-> "RELATED EXPLANATION (for {profile_desc}):",
             body |-> bank[first].explanation]
       ELSE [kind |-> "FALLBACK", entry |-> 0,
             header |-> "FALLBACK EXPLANATION:",
             body |-> "For this question about phishing awareness, ..."]

\* get_explanation_from_bank: the first entry of the question, option and
\* profile; else the first entry of the question and option; else the fallback
get_explanation_from_bank(bank, question_id, option_label, profile) ==
    LET normalized_qid == NormalizeQid(question_id)
        hits == {k \in DOMAIN bank :
                    /\ NormalizeQid(bank[k].questionId) = normalized_qid
                    /\ bank[k].option = option_label}
        full == {k \in hits : ProfileMatch(bank[k].profile, profile)}
        first_full == CHOOSE k \in full : \A j \in full : k <= j
        first_hit == CHOOSE k \in hits : \A j \in hits : k <= j
    IN IF bank = <<>> THEN get_detailed_explanation(question_id)
       ELSE IF full # {}
       THEN [kind |-> "PERSONALIZED", entry |-> first_full,
             header |-> "PERSONALIZED EXPLANATION:",
             body |-> bank[first_full].explanation]
       ELSE IF hits # {}
       THEN [kind |-> "RELATED", entry |-> first_hit,
             header |-> "RELATED EXPLANATION (for {profile_desc}):",
             body |-> bank[first_hit].explanation]
       ELSE [kind |-> "FALLBACK", entry |-> 0,
             header |-> "FALLBACK EXPLANATION:",
             body |-> "For this question about phishing awareness, ..."]

\* get_option_label_from_answer: the label of the first option with that text
\* in a question object with that question text, "A" when there is none
get_option_label_from_answer(qd, question, user_answer) ==
    LET places == UNION {{<<k, o>> : o \in DOMAIN qd[k].options} : k \in DOMAIN qd}
        hits == {p \in places :
                    /\ qd[p[1]].question = question
                    /\ qd[p[1]].options[p[2]].text = user_answer}
        first == CHOOSE p \in hits :
                    \A q \in hits : p[1] < q[1] \/ (p[1] = q[1] /\ p[2] <= q[2])
    IN IF hits = {} THEN "A" ELSE qd[first[1]].options[first[2]].label

\* the text printed when the bank is not consulted
BasicExplanation ==
    [kind |-> "BASIC", entry |-> 0, header |-> "BASIC EXPLANATION:",
     body |-> "This question tests your understanding of phishing. ..."]

\* variant: nothing is printed when the bank is not consulted
ExplanationForNoElse(qd, bank, profile, question, user_answer) ==
    LET found == {k \in DOMAIN qd : qd[k].question = question}
        q_item == qd[CHOOSE k \in found : \A j \in found : k <= j]
        question_id == IF found = {} THEN <<>> ELSE q_item.questionId
        option_label == IF found = {} THEN ""
                        ELSE get_option_label_from_answer(qd, question, user_answer)
    IN [question |-> question, question_id |-> question_id,
        option_label |-> option_label,
        text |-> IF question_id # <<>> /\ option_label # "" /\ profile # NoProfile
                 THEN get_explanation_from_bank(bank, question_id, option_label, profile)
                 ELSE [kind |-> "NONE", entry |-> 0, header |-> "", body |-> ""]]

\* provide_feedback, a question scored below 10: the explanation printed
ExplanationFor(qd, bank, profile, question, user_answer) ==
    LET found == {k \in DOMAIN qd : qd[k].question = question}
        q_item == qd[CHOOSE k \in found : \A j \in found : k <= j]
        question_id == IF found = {} THEN <<>> ELSE q_item.questionId
        option_label == IF found = {} THEN ""
                        ELSE get_option_label_from_answer(qd, question, user_answer)
    IN [question |-> question, question_id |-> question_id,
        option_label |-> option_label,
        text |-> IF question_id # <<>> /\ option_label # "" /\ profile # NoProfile
                 THEN get_explanation_from_bank(bank, question_id, option_label, profile)
                 ELSE BasicExplanation]

\* provide_feedback: the explanations, in the order of user_scores
Explanations(us, qd, bank, profile) ==
    LET low == SelectSeq(us, LAMBDA e : e.value.score < 10)
    IN [i \in DOMAIN low |->
          ExplanationFor(qd, bank, profile, low[i].key, low[i].value.answer)]

-----------------------------------------------------------------------------
(* PhishingKnowledgeEnhancer                                               *)

\* 'email', 'sender', 'inbox', 'message'
WordsEmailPhishing ==
    {<<101, 109, 97, 105, 108>>,
     <<115, 101, 110, 100, 101, 114>>,
     <<105, 110, 98, 111, 120>>,
     <<109, 101, 115, 115, 97, 103, 101>>}

\* 'url', 'link', 'website', 'domain', 'click'
WordsUrlAnalysis ==
    {<<117, 114, 108>>,
     <<108, 105, 110, 107>>,
     <<119, 101, 98, 115, 105, 116, 101>>,
     <<100, 111, 109, 97, 105, 110>>,
     <<99, 108, 105, 99, 107>>}

\* 'trust', 'verify', 'suspicious', 'social', 'convince'
WordsSocialEngineering ==
    {<<116, 114, 117, 115, 116>>,
     <<118, 101, 114, 105, 102, 121>>,
     <<115, 117, 115, 112, 105, 99, 105, 111, 117, 115>>,
     <<115, 111, 99, 105, 97, 108>>,
     <<99, 111, 110, 118, 105, 110, 99, 101>>}

\* 'attachment', 'download', 'file', 'document'
WordsAttachmentSafety ==
    {<<97, 116, 116, 97, 99, 104, 109, 101, 110, 116>>,
     <<100, 111, 119, 110, 108, 111, 97, 100>>,
     <<102, 105, 108, 101>>,
     <<100, 111, 99, 117, 109, 101, 110, 116>>}

\* 'password', 'login', 'credential', 'account', 'sign in'
WordsCredentialProtection ==
    {<<112, 97, 115, 115, 119, 111, 114, 100>>,
     <<108, 111, 103, 105, 110>>,
     <<99, 114, 101, 100, 101, 110, 116, 105, 97, 108>>,
     <<97, 99, 99, 111, 117, 110, 116>>,
     <<115, 105, 103, 110, 32, 105, 110>>}

HasWord(words, question_lower) == \E w \in words : Contains(w, question_lower)

\* map_question_to_topic
map_question_to_topic(question) ==
    LET question_lower == Lower(question)
    IN IF HasWord(WordsEmailPhishing, question_lower) THEN "email_phishing"
       ELSE IF HasWord(WordsUrlAnalysis, question_lower) THEN "url_analysis"
       ELSE IF HasWord(WordsSocialEngineering, question_lower) THEN "social_engineering"
       ELSE IF HasWord(WordsAttachmentSafety, question_lower) THEN "attachment_safety"
       ELSE IF HasWord(WordsCredentialProtection, question_lower)
            THEN "credential_protection"
       ELSE "general_phishing_awareness"

\* get_next_level
get_next_level(current_level) ==
    CASE current_level = "wrong" -> "basic"
      [] current_level = "basic" -> "intermediate"
      [] current_level = "intermediate" -> "advanced"
      [] current_level = "advanced" -> "expert"
      [] OTHER -> "advanced"

\* generate_search_terms: each base term of the topic with the first modifier
\* of the level
generate_search_terms(topic, level) ==
    LET terms ==
            CASE topic = "email_phishing" ->
                    <<"email phishing examples", "phishing email identification">>
              [] topic = "url_analysis" ->
                    <<"malicious URL detection", "suspicious link checker">>
              [] topic = "social_engineering" ->
                    <<"social engineering techniques", "phishing psychology tactics">>
              [] topic = "attachment_safety" ->
                    <<"malicious email attachments", "safe file download practices">>
              [] topic = "credential_protection" ->
                    <<"phishing credential theft", "secure login practices">>
              [] OTHER -> <<"phishing awareness">>
        modifier ==
            CASE level = "basic" -> "beginner guide"
              [] level = "intermediate" -> "advanced techniques"
              [] level = "advanced" -> "enterprise security"
              [] OTHER -> "tutorial"
    IN Take([t \in DOMAIN terms |-> <<terms[t], modifier>>], 3)

\* the bullets get_detailed_guidance adds for a level
GuidanceBullets(current_level) ==
    IF current_level = "wrong" \/ current_level = "basic"
    THEN <<"Master the fundamentals of {topic} recognition",
           "Practice identifying common phishing indicators",
           "Use reputable cybersecurity education resources">>
    ELSE IF current_level = "intermediate"
    THEN <<"Study advanced {topic} attack techniques",
           "Learn about threat intelligence and emerging threats",
           "Practice with phishing simulation tools">>
    ELSE <<>>

\* get_detailed_guidance: the lines of the text, in order
get_detailed_guidance(question, current_level) ==
    LET topic == map_question_to_topic(question)
    IN [topic |-> topic,
        next_level |-> get_next_level(current_level),
        lines |-> <<"To advance from {current_level} to {next_level} level in {topic}:">>
                  \o GuidanceBullets(current_level)
                  \o <<"Recommended searches: {', '.join(search_terms)}">>,
        search_terms |-> generate_search_terms(topic, current_level)]

\* provide_feedback: what it prints below the scores
Feedback(us, qd, bank, profile) ==
    [explanations |-> Explanations(us, qd, bank, profile),
     guidance |-> [a \in DOMAIN PriorityAreas(us) |->
                     get_detailed_guidance(PriorityAreas(us)[a].question,
                                           PriorityAreas(us)[a].current_level)]]

NoFeedback == [explanations |-> <<>>, guidance |-> <<>>]

\* no front end is running
MenuIdle == [front_end |-> "none", pc |-> "Idle", has_score |-> FALSE,
             last_quiz_score |-> Zero, last_level |-> "", served |-> <<>>, log |-> <<>>]

-----------------------------------------------------------------------------
(* PhishingTester: one object, from construction to the end of the call    *)

NoFile == [exists |-> FALSE, data |-> NoData]

\* None, where a fitted classifier is expected
NoModel == [none |-> TRUE, classes |-> {}, n_features |-> 0]

\* a fitted DecisionTreeClassifier: the classes of the labels and the number
\* of feature columns it was fitted from
Classifier(classes, n) == [none |-> FALSE, classes |-> classes, n_features |-> n]

\* what earlier training runs left in the directory: nothing, a model with
\* its feature names, a model whose feature names cannot be loaded
Artifacts ==
    { [model |-> NoModel, feature_names |-> <<>>],
      [model |-> Classifier({"Basic", "Expert"}, 2),
       feature_names |-> << <<81, 49, 95, 97>>, <<81, 49, 95, 98>> >>],
      [model |-> Classifier({"Beginner", "Intermediate", "Expert"}, 3),
       feature_names |-> <<>>] }

sessionVars == <<answer_sheet, questions_data, model, feature_names, user_profile,
                 entry, pc, qi, last_input, user_responses, user_scores,
                 chosen_marks, choices,
                 total_score, percentage, overall_level, priority_areas>>

NoFrame == [columns |-> <<>>, rows |-> <<>>]

\* no PhishingModelTrainer has been constructed
TrainerIdle ==
    /\ dataset_file = <<>>
    /\ answer_weights = <<>>
    /\ questions = <<>>
    /\ df = NoFrame
    /\ detailed_scores = <<>>
    /\ X = NoFrame
    /\ runs = <<>>
    /\ t_pc = "Idle"

SessionInit ==
    /\ answer_sheet = <<>>
    /\ questions_data = <<>>
    /\ model = NoModel
    /\ feature_names = <<>>
    /\ choices = <<>>
    /\ user_profile = NoProfile
    /\ entry = "none"
    /\ pc = "New"
    /\ qi = 0
    /\ last_input = NotANumber
    /\ user_responses = <<>>
    /\ user_scores = <<>>
    /\ chosen_marks = <<>>
    /\ total_score = 0
    /\ percentage = Zero
    /\ overall_level = ""
    /\ priority_areas = <<>>
    /\ explanation_bank = <<>>
    /\ feedback = NoFeedback

Init ==
    /\ sheet_file \in SheetFiles
    /\ bank_file \in BankFiles
    /\ menu = MenuIdle
    /\ \E a \in Artifacts : model_file = a.model /\ feature_names_file = a.feature_names
    /\ SessionInit
    /\ TrainerIdle
    /\ results_file = NoFile
    /\ database \in {DbAbsent, DbEarlier}
    /\ clock = 1
    /\ submissions = <<>>

\* __init__ / load_components.  A missing answer sheet leaves every field None
\* (modelled by the empty value: the code only tests these fields for truth).
load_components ==
    /\ UNCHANGED trainerVars
    /\ UNCHANGED <<bank_file, feedback, menu>>
    /\ pc = "New"
    /\ answer_sheet' = LoadedAnswerSheet(sheet_file)
    /\ questions_data' = LoadedQuestions(sheet_file)
    /\ explanation_bank' = IF sheet_file.exists /\ bank_file.exists
                           THEN bank_file.entries ELSE <<>>
    /\ model' = IF sheet_file.exists THEN model_file ELSE NoModel
    /\ feature_names' = IF sheet_file.exists THEN feature_names_file ELSE <<>>
    /\ UNCHANGED choices
    /\ pc' = "Loaded"
    /\ UNCHANGED <<sheet_file, model_file, user_profile, entry, qi, last_input,
                   user_responses, user_scores, chosen_marks, total_score,
                   percentage, overall_level, priority_areas, results_file,
                   database, clock, submissions>>

\* variant: only the model is tested
run_assessment_model_only ==
    /\ UNCHANGED trainerVars
    /\ UNCHANGED <<feature_names, choices>>
    /\ UNCHANGED <<bankVars, menu>>
    /\ pc = "Loaded"
    /\ entry' = "run_assessment"
    /\ pc' = IF model.none THEN "Returned" ELSE "Profile"
    /\ UNCHANGED <<sheet_file, model_file, answer_sheet, questions_data, model,
                   user_profile, qi, last_input, user_responses, user_scores,
                   chosen_marks, total_score, percentage, overall_level,
                   priority_areas, results_file, database, clock, submissions>>

\* run_assessment, up to its first step: the guard on model and answer sheet
run_assessment ==
    /\ UNCHANGED trainerVars
    /\ UNCHANGED <<feature_names, choices>>
    /\ UNCHANGED <<bankVars, menu>>
    /\ pc = "Loaded"
    /\ entry' = "run_assessment"
    /\ pc' = IF model.none \/ answer_sheet = <<>> THEN "Returned" ELSE "Profile"
    /\ UNCHANGED <<sheet_file, model_file, answer_sheet, questions_data, model,
                   user_profile, qi, last_input, user_responses, user_scores,
                   chosen_marks, total_score, percentage, overall_level,
                   priority_areas, results_file, database, clock, submissions>>

\* collect_user_profile: the prompts repeat until each answer is valid
collect_user_profile ==
    /\ UNCHANGED trainerVars
    /\ UNCHANGED <<feature_names, choices>>
    /\ UNCHANGED <<bankVars, menu>>
    /\ pc = "Profile"
    /\ \E prof \in Profiles : user_profile' = prof
    /\ pc' = "QuizStart"
    /\ UNCHANGED <<sheet_file, model_file, answer_sheet, questions_data, model,
                   entry, qi, last_input, user_responses, user_scores,
                   chosen_marks, total_score, percentage, overall_level,
                   priority_areas, results_file, database, clock, submissions>>

\* a caller invokes conduct_quiz, calculate_results and provide_feedback itself
call_methods ==
    /\ UNCHANGED trainerVars
    /\ UNCHANGED <<feature_names, choices>>
    /\ UNCHANGED <<bankVars, menu>>
    /\ pc = "Loaded"
    /\ entry' = "methods"
    /\ pc' = "QuizStart"
    /\ UNCHANGED <<sheet_file, model_file, answer_sheet, questions_data, model,
                   user_profile, qi, last_input, user_responses, user_scores,
                   chosen_marks, total_score, percentage, overall_level,
                   priority_areas, results_file, database, clock, submissions>>

\* conduct_quiz, entry: no questions returns ({}, {}), else the first prompt
conduct_quiz_begin ==
    /\ UNCHANGED trainerVars
    /\ UNCHANGED <<feature_names, choices>>
    /\ UNCHANGED <<bankVars, menu>>
    /\ pc = "QuizStart"
    /\ user_responses' = <<>>
    /\ user_scores' = <<>>
    /\ IF questions_data = <<>>
       THEN pc' = "Calculate" /\ qi' = qi
       ELSE pc' = "Prompt" /\ qi' = 1
    /\ UNCHANGED <<sheet_file, model_file, answer_sheet, questions_data, model,
                   user_profile, entry, last_input, chosen_marks, total_score,
                   percentage, overall_level, priority_areas, results_file,
                   database, clock, submissions>>

\* variant: a rejected input still moves on to the next question
submit_answer_skip(choice) ==
    /\ UNCHANGED trainerVars
    /\ UNCHANGED feature_names
    /\ UNCHANGED <<bankVars, menu>>
    /\ pc = "Prompt"
    /\ last_input' = choice
    /\ LET q_item == questions_data[qi]
           question == q_item.question
           options == q_item.options
       IN IF choice # NotANumber /\ 1 <= choice /\ choice <= Len(options)
          THEN LET selected_option == options[choice]
                   selected_answer == selected_option.text
               IN /\ user_responses' = DictPut(user_responses, question, selected_answer)
                  /\ user_scores' = DictPut(user_scores, question,
                                            [answer |-> selected_answer,
                                             score |-> selected_option.marks,
                                             level |-> selected_option.level])
                  /\ chosen_marks' = Append(chosen_marks, selected_option.marks)
                  /\ choices' = Append(choices, choice)
                  /\ qi' = qi + 1
                  /\ pc' = IF qi + 1 > Len(questions_data) THEN "Calculate" ELSE "Prompt"
          ELSE /\ UNCHANGED <<user_responses, user_scores, chosen_marks, choices>>
               /\ qi' = qi + 1
               /\ pc' = IF qi + 1 > Len(questions_data) THEN "Calculate" ELSE "Prompt"
    /\ UNCHANGED <<sheet_file, model_file, answer_sheet, questions_data, model,
                   user_profile, entry, total_score, percentage, overall_level,
                   priority_areas, results_file, database, clock, submissions>>

\* variant: an accepted answer moves two questions on
submit_answer_jump(choice) ==
    /\ UNCHANGED trainerVars
    /\ UNCHANGED feature_names
    /\ UNCHANGED <<bankVars, menu>>
    /\ pc = "Prompt"
    /\ last_input' = choice
    /\ LET q_item == questions_data[qi]
           question == q_item.question
           options == q_item.options
       IN IF choice # NotANumber /\ 1 <= choice /\ choice <= Len(options)
          THEN LET selected_option == options[choice]
                   selected_answer == selected_option.text
               IN /\ user_responses' = DictPut(user_responses, question, selected_answer)
                  /\ user_scores' = DictPut(user_scores, question,
                                            [answer |-> selected_answer,
                                             score |-> selected_option.marks,
                                             level |-> selected_option.level])
                  /\ chosen_marks' = Append(chosen_marks, selected_option.marks)
                  /\ choices' = Append(choices, choice)
                  /\ qi' = qi + 2
                  /\ pc' = IF qi + 2 > Len(questions_data) THEN "Calculate" ELSE "Prompt"
          ELSE UNCHANGED <<user_responses, user_scores, chosen_marks, choices, qi, pc>>
    /\ UNCHANGED <<sheet_file, model_file, answer_sheet, questions_data, model,
                   user_profile, entry, total_score, percentage, overall_level,
                   priority_areas, results_file, database, clock, submissions>>

\* variant: a question without options is passed over at the first number typed
submit_answer_pass_empty(choice) ==
    /\ UNCHANGED trainerVars
    /\ UNCHANGED feature_names
    /\ UNCHANGED <<bankVars, menu>>
    /\ pc = "Prompt"
    /\ last_input' = choice
    /\ LET q_item == questions_data[qi]
           question == q_item.question
           options == q_item.options
       IN IF choice # NotANumber /\ 1 <= choice /\ choice <= Len(options)
          THEN LET selected_option == options[choice]
                   selected_answer == selected_option.text
               IN /\ user_responses' = DictPut(user_responses, question, selected_answer)
                  /\ user_scores' = DictPut(user_scores, question,
                                            [answer |-> selected_answer,
                                             score |-> selected_option.marks,
                                             level |-> selected_option.level])
                  /\ chosen_marks' = Append(chosen_marks, selected_option.marks)
                  /\ choices' = Append(choices, choice)
                  /\ qi' = qi + 1
                  /\ pc' = IF qi + 1 > Len(questions_data) THEN "Calculate" ELSE "Prompt"
          ELSE IF choice # NotANumber /\ options = <<>>
          THEN /\ UNCHANGED <<user_responses, user_scores, chosen_marks, choices>>
               /\ qi' = qi + 1
               /\ pc' = IF qi + 1 > Len(questions_data) THEN "Calculate" ELSE "Prompt"
          ELSE UNCHANGED <<user_responses, user_scores, chosen_marks, choices, qi, pc>>
    /\ UNCHANGED <<sheet_file, model_file, answer_sheet, questions_data, model,
                   user_profile, entry, total_score, percentage, overall_level,
                   priority_areas, results_file, database, clock, submissions>>

\* conduct_quiz, one pass of the `while True` input loop of question qi
submit_answer(choice) ==
    /\ UNCHANGED trainerVars
    /\ UNCHANGED feature_names
    /\ UNCHANGED <<bankVars, menu>>
    /\ pc = "Prompt"
    /\ last_input' = choice
    /\ LET q_item == questions_data[qi]
           question == q_item.question
           options == q_item.options
       IN IF choice # NotANumber /\ 1 <= choice /\ choice <= Len(options)
          THEN LET selected_option == options[choice]
                   selected_answer == selected_option.text
               IN /\ user_responses' = DictPut(user_responses, question, selected_answer)
                  /\ user_scores' = DictPut(user_scores, question,
                                            [answer |-> selected_answer,
                                             score |-> selected_option.marks,
                                             level |-> selected_option.level])
                  /\ chosen_marks' = Append(chosen_marks, selected_option.marks)
                  /\ choices' = Append(choices, choice)
                  /\ qi' = qi + 1
                  /\ pc' = IF qi + 1 > Len(questions_data) THEN "Calculate" ELSE "Prompt"
          ELSE UNCHANGED <<user_responses, user_scores, chosen_marks, choices, qi, pc>>
    /\ UNCHANGED <<sheet_file, model_file, answer_sheet, questions_data, model,
                   user_profile, entry, total_score, percentage, overall_level,
                   priority_areas, results_file, database, clock, submissions>>

conduct_quiz_input == \E choice \in TypedInputs : submit_answer(choice)

calculate_results_step ==
    /\ UNCHANGED trainerVars
    /\ UNCHANGED <<feature_names, choices>>
    /\ UNCHANGED <<bankVars, menu>>
    /\ pc = "Calculate"
    /\ LET r == calculate_results(user_scores)
       IN /\ total_score' = r[1]
          /\ percentage' = r[2]
          /\ overall_level' = r[3]
    /\ pc' = "Feedback"
    /\ UNCHANGED <<sheet_file, model_file, answer_sheet, questions_data, model,
                   user_profile, entry, qi, last_input, user_responses,
                   user_scores, chosen_marks, priority_areas, results_file,
                   database, clock, submissions>>

provide_feedback ==
    /\ UNCHANGED trainerVars
    /\ UNCHANGED <<feature_names, choices>>
    /\ UNCHANGED <<bank_file, explanation_bank, menu>>
    /\ pc = "Feedback"
    /\ priority_areas' = PriorityAreas(user_scores)
    /\ feedback' = Feedback(user_scores, questions_data, explanation_bank, user_profile)
    /\ pc' = IF entry = "run_assessment" THEN "Save" ELSE "Returned"
    /\ UNCHANGED <<sheet_file, model_file, answer_sheet, questions_data, model,
                   user_profile, entry, qi, last_input, user_responses,
                   user_scores, chosen_marks, total_score, percentage,
                   overall_level, results_file, database, clock, submissions>>

\* run_assessment, the tail: the results file, then the database
save_results ==
    /\ UNCHANGED trainerVars
    /\ UNCHANGED <<feature_names, choices>>
    /\ UNCHANGED <<bankVars, menu>>
    /\ pc = "Save"
    /\ LET user_data == UserData(user_profile, total_score, percentage, overall_level)
       IN /\ results_file' = [exists |-> TRUE, data |-> user_data]
          /\ database' = save_to_assessment_database(database, user_data, clock)
          /\ submissions' = Append(submissions, user_data)
    /\ pc' = "Returned"
    /\ UNCHANGED <<sheet_file, model_file, answer_sheet, questions_data, model,
                   user_profile, entry, qi, last_input, user_responses,
                   user_scores, chosen_marks, total_score, percentage,
                   overall_level, priority_areas, clock>>

Next ==
    \/ load_components
    \/ run_assessment
    \/ collect_user_profile
    \/ call_methods
    \/ conduct_quiz_begin
    \/ conduct_quiz_input
    \/ calculate_results_step
    \/ provide_feedback
    \/ save_results

Spec == Init /\ [][Next]_vars

-----------------------------------------------------------------------------
(* Claims about the quiz session                                           *)

\* calculate_results has run in this session
Computed == pc \in {"Feedback", "Save"} \/ (pc = "Returned" /\ overall_level # "")

\* provide_feedback has run in this session
FeedbackGiven == pc = "Save" \/ (pc = "Returned" /\ overall_level # "")

\* C1: for a non-empty set of scored responses the tier follows the table on
\* p = sum of scores / (count x 10) x 100: Expert iff p >= 75, Intermediate iff
\* 50 <= p < 75, Basic iff 25 <= p < 50, Beginner iff p < 25.
C1_TierTable ==
    (Computed /\ user_scores # <<>>) =>
        LET t == SumSeq(Scores(user_scores)) * 100
            m == Len(user_scores) * 10
        IN /\ (overall_level = "Expert") <=> (t >= 75 * m)
           /\ (overall_level = "Intermediate") <=> (50 * m <= t /\ t < 75 * m)
           /\ (overall_level = "Basic") <=> (25 * m <= t /\ t < 50 * m)
           /\ (overall_level = "Beginner") <=> (t < 25 * m)

\* a session scored exactly 75 percent and was classified
C1_Witness ==
    /\ Computed
    /\ user_scores # <<>>
    /\ SumSeq(Scores(user_scores)) * 100 = 75 * Len(user_scores) * 10
    /\ overall_level = "Expert"

\* C4: after a completed quiz the total is the sum of the marks of the options
\* chosen, one per question, and the percentage is total / (questions answered
\* x 10) x 100.
C4_TotalIsSumOfChosenMarks ==
    (Computed /\ chosen_marks # <<>>) =>
        /\ total_score = SumSeq(chosen_marks)
        /\ percentage = Frac(total_score * 100, Len(chosen_marks) * 10)

\* C5: an empty response set gives total 0, percentage 0.0, tier Beginner.
C5_EmptyAggregate ==
    (Computed /\ user_scores = <<>>) =>
        /\ total_score = 0
        /\ percentage = Zero
        /\ overall_level = "Beginner"

\* conduct_quiz returned ({}, {}) for want of questions and the result was computed
C5_Witness ==
    /\ Computed
    /\ questions_data = <<>>
    /\ user_scores = <<>>
    /\ user_responses = <<>>
    /\ overall_level = "Beginner"

\* the typed input is an integer within 1..len(options) of question qi
InRange(choice) ==
    /\ choice # NotANumber
    /\ 1 <= choice
    /\ choice <= Len(questions_data[qi].options)

\* C6: at a prompt, an input that is not an integer or is out of range leaves
\* the question index, the responses and the scores unchanged and prompts the
\* same question again; only an in-range choice records a response and advances.
C6_InvalidChoiceRetries ==
    [][pc = "Prompt" =>
        /\ ~InRange(last_input') =>
               /\ pc' = "Prompt"
               /\ qi' = qi
               /\ user_responses' = user_responses
               /\ user_scores' = user_scores
        /\ InRange(last_input') =>
               /\ qi' = qi + 1
               /\ DictHas(user_responses', questions_data[qi].question)
               /\ user_responses'[DictGet(user_responses', questions_data[qi].question)].value
                      = questions_data[qi].options[last_input'].text
    ]_vars

\* the second question is on screen after an input of 0 was refused there
C6_Witness ==
    /\ pc = "Prompt"
    /\ qi = 2
    /\ last_input = 0
    /\ Len(chosen_marks) = 1

QuizPhase ==
    IF pc = "Prompt" THEN "InProgress"
    ELSE IF Computed \/ pc = "Calculate" THEN "Completed"
    ELSE "NotStarted"

\* C7: the session moves only NotStarted -> InProgress(i) -> Completed; the
\* question on screen is the i-th loaded one with exactly the i-1 earlier ones
\* answered; the index never decreases and grows by one per accepted answer;
\* the session completes exactly when the index passes the last question.
C7_ForwardOnly ==
    [][/\ (pc' = "Prompt") =>
             /\ qi' \in 1..Len(questions_data)
             /\ Len(chosen_marks') = qi' - 1
       /\ qi' >= qi
       /\ (QuizPhase = "NotStarted" /\ QuizPhase' = "InProgress") => qi' = 1
       /\ (QuizPhase = "NotStarted" /\ QuizPhase' = "Completed") => questions_data = <<>>
       /\ (QuizPhase = "InProgress") =>
             /\ QuizPhase' # "NotStarted"
             /\ qi' = qi + (Len(chosen_marks') - Len(chosen_marks))
             /\ Len(chosen_marks') - Len(chosen_marks) \in {0, 1}
             /\ (QuizPhase' = "Completed") <=> (qi' > Len(questions_data))
       /\ (QuizPhase = "Completed") => (QuizPhase' = "Completed" /\ qi' = qi)
    ]_vars

\* a quiz of four questions ran to completion
C7_Witness ==
    /\ QuizPhase = "Completed"
    /\ Len(questions_data) = 4
    /\ qi = 5
    /\ Len(chosen_marks) = 4

\* C8: the priority improvement areas hold only questions scored below 10, in
\* ascending order of score, and at most three of them.
C8_PriorityAreas ==
    FeedbackGiven =>
        /\ Len(priority_areas) <= 3
        /\ \A i \in DOMAIN priority_areas :
              /\ priority_areas[i].score < 10
              /\ \E k \in DOMAIN user_scores :
                    /\ user_scores[k].key = priority_areas[i].question
                    /\ user_scores[k].value.score = priority_areas[i].score
        /\ \A i, j \in DOMAIN priority_areas :
              i < j => priority_areas[i].score <= priority_areas[j].score

\* four questions were scored below 10, highest first, and three are shown
C8_Witness ==
    /\ FeedbackGiven
    /\ Len(ImprovementAreas(user_scores)) = 4
    /\ user_scores[1].value.score > user_scores[4].value.score
    /\ Len(priority_areas) = 3

-----------------------------------------------------------------------------
(* The assessment database under a sequence of saves                       *)

\* the user_data dicts handed to save_to_assessment_database
SavedResults == { <<5, Frac(50, 1), "Intermediate">>, <<20, Frac(100, 1), "Expert">> }
UserDatas == { UserData(prof, r[1], r[2], r[3]) : prof \in Profiles, r \in SavedResults }

InitDb ==
    /\ bank_file = BankAbsent
    /\ menu = MenuIdle
    /\ sheet_file = SheetAbsent
    /\ model_file = NoModel
    /\ feature_names_file = <<>>
    /\ SessionInit
    /\ TrainerIdle
    /\ results_file = NoFile
    /\ database \in {DbAbsent, DbEarlier}
    /\ clock = 1
    /\ submissions = <<>>

\* one call of save_to_assessment_database, dt seconds after the previous one
save_call(ud, dt) ==
    /\ UNCHANGED trainerVars
    /\ Len(submissions) < MaxSaves
    /\ clock' = clock + dt
    /\ database' = save_to_assessment_database(database, ud, clock + dt)
    /\ submissions' = Append(submissions, ud)
    /\ UNCHANGED <<sheet_file, model_file, results_file>>
    /\ UNCHANGED sessionVars
    /\ UNCHANGED <<bankVars, menu>>

NextDb == \E ud \in UserDatas, dt \in {0, 1} : save_call(ud, dt)

SpecDb == InitDb /\ [][NextDb]_vars

\* the submissions made under the name of record r, whatever the case
SubmittedAs(r) == {k \in DOMAIN submissions : Lower(submissions[k].profile.name) = Lower(r.name)}

Latest(S) == CHOOSE k \in S : \A j \in S : j <= k

\* C2: the database holds at most one record per case-insensitive name, and
\* the record of a name carries the score, percentage, tier and profile of
\* the most recent submission under that name.
C2_OneRecordPerName ==
    LET recs == database.assessments IN
    /\ \A i, j \in DOMAIN recs : Lower(recs[i].name) = Lower(recs[j].name) => i = j
    /\ \A k \in DOMAIN submissions :
          \E i \in DOMAIN recs : Lower(recs[i].name) = Lower(submissions[k].profile.name)
    /\ \A i \in DOMAIN recs :
          SubmittedAs(recs[i]) # {} =>
              LET ud == submissions[Latest(SubmittedAs(recs[i]))]
              IN /\ recs[i].name = ud.profile.name
                 /\ recs[i].gender = ud.profile.gender
                 /\ recs[i].education_level = ud.profile.education
                 /\ recs[i].proficiency = ud.profile.proficiency
                 /\ recs[i].total_score = ud.total_score
                 /\ recs[i].percentage = ud.percentage
                 /\ recs[i].overall_knowledge_level = ud.overall_level

\* "Al" was saved, then "al" with other values: one record, the second's values
C2_Witness ==
    /\ Len(submissions) = 2
    /\ submissions[1].profile.name = NameAl
    /\ submissions[2].profile.name = Nameal
    /\ submissions[1].total_score # submissions[2].total_score
    /\ submissions[1].profile.gender # submissions[2].profile.gender
    /\ Len(database.assessments) = 1
    /\ database.assessments[1].name = Nameal
    /\ database.assessments[1].total_score = submissions[2].total_score

\* C3: a save for name N replaces the record of N at its position, or appends
\* the new record when N has none; every other record, the order of the
\* others and the metadata block stay as they were.
C3_OnlyOwnSlot ==
    [][Len(submissions') = Len(submissions) + 1 =>
        LET old == database.assessments
            new == database'.assessments
            N == submissions'[Len(submissions')].profile.name
            own == {i \in DOMAIN old : Lower(old[i].name) = Lower(N)}
        IN /\ database.exists => database'.metadata = database.metadata
           /\ own # {} =>
                 /\ Len(new) = Len(old)
                 /\ \E i \in own :
                       /\ new[i].name = N
                       /\ \A j \in DOMAIN old : j # i => new[j] = old[j]
           /\ own = {} =>
                 /\ Len(new) = Len(old) + 1
                 /\ SubSeq(new, 1, Len(old)) = old
                 /\ new[Len(new)].name = N
    ]_vars

\* a third save replaced the first of two records where it stood
C3_Witness ==
    /\ Len(submissions) = 3
    /\ Len(database.assessments) = 2
    /\ database.assessments[1].name = submissions[3].profile.name
    /\ database.assessments[1].name # submissions[1].profile.name
    /\ Lower(database.assessments[1].name) = Lower(submissions[1].profile.name)
    /\ database.assessments[2].name = submissions[2].profile.name
    /\ database.assessments[1].timestamp > database.assessments[2].timestamp

-----------------------------------------------------------------------------
(* Inputs of the training path: answer sheets with worded options, datasets *)

MaxRows == 8             \* respondents in a dataset
MaxSheetQuestions == 11  \* questions in a trainer answer sheet

TReportIt == <<114, 101, 112, 111, 114, 116, 32, 105, 116>>        \* "report it"
TIgnoreIt == <<105, 103, 110, 111, 114, 101, 32, 105, 116>>        \* "ignore it"
TClickLink == <<99, 108, 105, 99, 107, 32, 108, 105, 110, 107>>    \* "click link"
TDelete == <<100, 101, 108, 101, 116, 101>>                        \* "delete"
TOpen == <<111, 112, 101, 110>>                                    \* "open"
TZzz == <<122, 122, 122>>                                          \* "zzz"
TNan == <<110, 97, 110>>                                           \* "nan"
TWait == <<119, 97, 105, 116>>                                     \* "wait"
TQuestion_ == <<81, 117, 101, 115, 116, 105, 111, 110, 95>>        \* "Question_"

\* decimal digits of n, 0 <= n < 100
Digits(n) == IF n < 10 THEN <<48 + n>> ELSE <<48 + (n \div 10), 48 + (n % 10)>>

\* the text of question i of a trainer sheet: "Q1", "Q2", ...
QText(i) == <<81>> \o Digits(i)

\* upper-case form of a text, for answers typed in capitals
Upper(s) == [i \in DOMAIN s |-> IF s[i] \in 97..122 THEN s[i] - 32 ELSE s[i]]

\* a zero-mark option that shares the word "it" with the option before it
OptsPhish == << Opt(TReportIt, 10, "advanced", "A"),
                Opt(TIgnoreIt, 0, "wrong", "B"),
                Opt(TClickLink, 5, "basic", "C") >>

\* options without a common word
OptsPlain == << Opt(TDelete, 10, "advanced", "A"),
                Opt(TOpen, 0, "wrong", "B") >>

OptionFamilies == {OptsPhish, OptsPlain}

\* two options whose texts differ in case only
OptsDup == << Opt(TDelete, 10, "advanced", "A"),
              Opt(Upper(TDelete), 5, "basic", "B"),
              Opt(TOpen, 0, "wrong", "C") >>

\* a sheet of n questions, all with the same options
TrainerSheet(n, opts) ==
    SheetFile(TRUE, TRUE, [i \in 1..n |-> QItem(QText(i), QText(i), opts)])

SheetSizes == {0, 1, 2, 7, 9, 10, MaxSheetQuestions}

TrainerSheets ==
    {TrainerSheet(n, opts) : n \in SheetSizes, opts \in OptionFamilies}
    \cup {TrainerSheet(n, OptsDup) : n \in {1, 10}}
    \cup {SheetNoList}

\* a CSV cell: text, or empty (read as NaN)
Cell(t) == [missing |-> FALSE, text |-> t]
NaN == [missing |-> TRUE, text |-> <<>>]

MaxMark(opts) == CHOOSE m \in {opts[i].marks : i \in DOMAIN opts} :
                    \A j \in DOMAIN opts : opts[j].marks <= m

FirstWithMark(opts, m) ==
    opts[CHOOSE i \in DOMAIN opts :
            opts[i].marks = m /\ \A j \in DOMAIN opts : opts[j].marks = m => i <= j]

\* what a respondent of a given kind wrote under a question with these options
AnswerOf(kind, opts) ==
    CASE kind = "max" -> Cell(FirstWithMark(opts, MaxMark(opts)).text)
      [] kind = "MAX" -> Cell(<<32>> \o Upper(FirstWithMark(opts, MaxMark(opts)).text))
      [] kind = "zero" -> Cell(FirstWithMark(opts, 0).text)
      [] kind = "mid" -> Cell(IF \E i \in DOMAIN opts : opts[i].marks = 5
                              THEN FirstWithMark(opts, 5).text ELSE TZzz)
      [] kind = "other" -> Cell(TZzz)
      [] kind = "wait" -> Cell(TWait)
      [] kind = "blank" -> NaN

\* "gaps": a respondent who left the odd columns empty and typed blanks in the
\* even ones
RespondentKinds == {"max", "MAX", "zero", "mid", "other", "wait", "gaps", "blank"}

\* one CSV row of `width` cells for a respondent of a given kind
RowOf(kind, sheet, width) ==
    [c \in 1..width |->
        IF kind = "gaps" THEN (IF c % 2 = 1 THEN NaN ELSE Cell(<<32, 32>>))
        ELSE IF c <= Len(sheet.questions)
        THEN AnswerOf(kind, sheet.questions[c].options)
        ELSE Cell(TZzz)]

\* k respondents of kind a followed by m of kind b
Dataset(sheet, width, k, a, m, b) ==
    [r \in 1..(k + m) |-> RowOf(IF r <= k THEN a ELSE b, sheet, width)]

\* a CSV whose first line names the questions, in another order than the
\* sheet: column c is headed by question (c % n) + 1
HeaderRow(sheet, n) ==
    [c \in 1..10 |->
        IF c <= n THEN Cell(sheet.questions[(c % n) + 1].question) ELSE Cell(TZzz)]

\* a respondent who gave the best option to question 1 and a zero-mark option
\* to the others, written under those headers
RowUnderHeader(sheet, n) ==
    [c \in 1..10 |->
        IF c <= n
        THEN AnswerOf(IF (c % n) + 1 = 1 THEN "max" ELSE "zero",
                      sheet.questions[(c % n) + 1].options)
        ELSE Cell(TZzz)]

HeaderDataset(sheet, k) ==
    LET n == IF Len(sheet.questions) < 10 THEN Len(sheet.questions) ELSE 10
    IN <<HeaderRow(sheet, n)>> \o [r \in 1..k |-> RowUnderHeader(sheet, n)]

DatasetsFor(sheet) ==
    {Dataset(sheet, 10, k, a, 0, a) : k \in 1..MaxRows, a \in RespondentKinds}
    \cup {Dataset(sheet, 10, k, p[1], 1, p[2]) :
             k \in 1..(MaxRows - 1),
             p \in {q \in {"max", "zero"} \X RespondentKinds : q[1] # q[2]}}
    \cup {Dataset(sheet, w, 2, "max", 0, "max") : w \in {9, 11}}
    \cup (IF Len(sheet.questions) > 0
          THEN {HeaderDataset(sheet, k) : k \in 1..2} ELSE {})

-----------------------------------------------------------------------------
(* PhishingModelTrainer                                                    *)

QuestionColumns == 10      \* load_dataset keeps the first 10 columns
max_possible_score == 100  \* calculate_user_scores: 10 questions * 10 points

\* load_answer_sheet: self.questions
TrainerQuestions(f) ==
    IF f.has_questions THEN [i \in DOMAIN f.questions |-> f.questions[i].question]
    ELSE <<>>

\* load_answer_sheet: self.answer_weights
TrainerWeights(f) ==
    LET RECURSIVE Build(_, _)
        Build(rest, d) ==
            IF rest = <<>> THEN d
            ELSE Build(Tail(rest),
                       DictPut(d, Head(rest).question, OptionsDict(Head(rest).options)))
    IN IF f.has_questions THEN Build(f.questions, <<>>) ELSE <<>>

\* load_dataset: the names given to the first 10 columns
QuestionCols(qs) ==
    [i \in 1..QuestionColumns |->
        IF i <= Len(qs) THEN qs[i] ELSE TQuestion_ \o Digits(i)]

\* `question in self.df.columns`
HasColumn(cols, name) == \E c \in DOMAIN cols : cols[c] = name

ColumnOf(cols, name) == CHOOSE c \in DOMAIN cols : cols[c] = name

\* str(row[question]).strip()
UserAnswer(cell) == Strip(IF cell.missing THEN TNan ELSE cell.text)

\* the first of the positions S of an options dict, 0 when there is none
FirstEntry(S) ==
    IF S = {} THEN 0 ELSE CHOOSE i \in S : \A j \in S : i <= j

\* user_answer.lower() == answer_option.lower()
ExactMatch(user_answer, option_text) == Lower(user_answer) = Lower(option_text)

\* any(word in user_answer.lower() for word in answer_option.lower().split()[:3])
PartialMatch(user_answer, option_text) ==
    LET words == Take(Split(Lower(option_text)), 3)
    IN \E w \in DOMAIN words : Contains(words[w], Lower(user_answer))

\* variant: the default level is spelled like the level of a zero-mark option
ScoreAnswerLowerSentinel(user_answer, question_weights) ==
    LET e == FirstEntry({i \in DOMAIN question_weights :
                            ExactMatch(user_answer, question_weights[i].key)})
        score1 == IF e # 0 THEN question_weights[e].value.weight ELSE 0
        level1 == IF e # 0 THEN question_weights[e].value.level ELSE "wrong"
        p == IF score1 = 0
             THEN FirstEntry({i \in DOMAIN question_weights :
                                PartialMatch(user_answer, question_weights[i].key)})
             ELSE 0
    IN [answer |-> user_answer,
        score |-> IF p # 0 THEN question_weights[p].value.weight ELSE score1,
        level |-> IF p # 0 THEN question_weights[p].value.level ELSE level1]

\* calculate_user_scores, one answer: exact pass, then the fallback when the
\* score is still 0
ScoreAnswer(user_answer, question_weights) ==
    LET e == FirstEntry({i \in DOMAIN question_weights :
                            ExactMatch(user_answer, question_weights[i].key)})
        score1 == IF e # 0 THEN question_weights[e].value.weight ELSE 0
        level1 == IF e # 0 THEN question_weights[e].value.level ELSE "Wrong"
        p == IF score1 = 0
             THEN FirstEntry({i \in DOMAIN question_weights :
                                PartialMatch(user_answer, question_weights[i].key)})
             ELSE 0
    IN [answer |-> user_answer,
        score |-> IF p # 0 THEN question_weights[p].value.weight ELSE score1,
        level |-> IF p # 0 THEN question_weights[p].value.level ELSE level1]

\* calculate_user_scores, one row: user_details
UserDetails(cells, cols, qs, weights) ==
    LET RECURSIVE Build(_, _)
        Build(i, d) ==
            IF i > Len(qs) THEN d
            ELSE IF HasColumn(cols, qs[i]) /\ DictHas(weights, qs[i])
                 THEN Build(i + 1,
                        DictPut(d, qs[i],
                                ScoreAnswer(UserAnswer(cells[ColumnOf(cols, qs[i])]),
                                            weights[DictGet(weights, qs[i])].value)))
                 ELSE Build(i + 1, d)
    IN Build(1, <<>>)

\* calculate_user_scores, one row: user_score
UserScore(cells, cols, qs, weights) ==
    LET RECURSIVE Add(_)
        Add(i) ==
            IF i > Len(qs) THEN 0
            ELSE (IF HasColumn(cols, qs[i]) /\ DictHas(weights, qs[i])
                  THEN ScoreAnswer(UserAnswer(cells[ColumnOf(cols, qs[i])]),
                                   weights[DictGet(weights, qs[i])].value).score
                  ELSE 0) + Add(i + 1)
    IN Add(1)

\* variant: the training path uses the runtime table
get_level_strict(p) ==
    IF PctGE(p, 75) THEN "Expert"
    ELSE IF PctGE(p, 50) THEN "Intermediate"
    ELSE IF PctGE(p, 25) THEN "Basic"
    ELSE "Beginner"

\* classify_awareness_level: get_level
get_level(p) ==
    IF PctGE(p, 70) THEN "Expert"
    ELSE IF PctGE(p, 45) THEN "Intermediate"
    ELSE IF PctGE(p, 20) THEN "Basic"
    ELSE "Beginner"

\* the label given to the i-th sampled row (i from 0) out of n sampled rows
DiversityLabel(i, n) ==
    IF i < n \div 3 THEN "Basic"
    ELSE IF i < (2 * n) \div 3 THEN "Intermediate"
    ELSE "Expert"

Min(a, b) == IF a < b THEN a ELSE b

\* np.random.choice(n, size=k, replace=False): k distinct row positions, in any order
Samples(n, k) ==
    {s \in [1..k -> 1..n] : \A i, j \in 1..k : s[i] = s[j] => i = j}

InitTrainer ==
    /\ sheet_file \in TrainerSheets
    /\ bank_file = BankAbsent
    /\ menu = MenuIdle
    /\ model_file = NoModel
    /\ runs = <<>>
    /\ SessionInit
    /\ results_file = NoFile
    /\ database = DbAbsent
    /\ clock = 1
    /\ submissions = <<>>
    /\ dataset_file \in DatasetsFor(sheet_file)
    /\ answer_weights = <<>>
    /\ questions = <<>>
    /\ df = NoFrame
    /\ detailed_scores = <<>>
    /\ X = NoFrame
    /\ feature_names_file = <<>>
    /\ t_pc = "New"

testerVars == <<sheet_file, model_file, results_file, database, clock, submissions>>

load_answer_sheet ==
    /\ UNCHANGED runs
    /\ t_pc = "New"
    /\ answer_weights' = TrainerWeights(sheet_file)
    /\ questions' = TrainerQuestions(sheet_file)
    /\ t_pc' = "SheetLoaded"
    /\ UNCHANGED <<dataset_file, df, detailed_scores, X, feature_names_file>>
    /\ UNCHANGED testerVars
    /\ UNCHANGED sessionVars
    /\ UNCHANGED <<bankVars, menu>>

\* load_dataset: fewer than 10 columns raises ValueError
load_dataset ==
    /\ UNCHANGED runs
    /\ t_pc = "SheetLoaded"
    /\ IF Len(dataset_file[1]) >= QuestionColumns
       THEN /\ df' = [columns |-> QuestionCols(questions),
                      rows |-> [r \in DOMAIN dataset_file |->
                                  [cells |-> Take(dataset_file[r], QuestionColumns),
                                   total_score |-> 0,
                                   percentage |-> Zero,
                                   awareness_level |-> "",
                                   sampled |-> FALSE]]]
            /\ t_pc' = "DatasetLoaded"
       ELSE /\ df' = df
            /\ t_pc' = "Raised"
    /\ UNCHANGED <<dataset_file, answer_weights, questions, detailed_scores, X,
                   feature_names_file>>
    /\ UNCHANGED testerVars
    /\ UNCHANGED sessionVars
    /\ UNCHANGED <<bankVars, menu>>

calculate_user_scores ==
    /\ UNCHANGED runs
    /\ t_pc = "DatasetLoaded"
    /\ detailed_scores' =
          [r \in DOMAIN df.rows |->
              UserDetails(df.rows[r].cells, df.columns, questions, answer_weights)]
    /\ df' = [df EXCEPT !.rows =
                [r \in DOMAIN df.rows |->
                    LET user_score == UserScore(df.rows[r].cells, df.columns,
                                                questions, answer_weights)
                    IN [df.rows[r] EXCEPT
                          !.total_score = user_score,
                          !.percentage = Frac(user_score * 100, max_possible_score)]]]
    /\ t_pc' = "Scored"
    /\ UNCHANGED <<dataset_file, answer_weights, questions, X, feature_names_file>>
    /\ UNCHANGED testerVars
    /\ UNCHANGED sessionVars
    /\ UNCHANGED <<bankVars, menu>>

Levels(rows) == {rows[r].awareness_level : r \in DOMAIN rows}

\* classify_awareness_level: get_level on every row, then, when one class
\* only is found, the relabelling of a random sample of rows
classify_awareness_level ==
    /\ UNCHANGED runs
    /\ t_pc = "Scored"
    /\ LET labelled == [r \in DOMAIN df.rows |->
                          [df.rows[r] EXCEPT !.awareness_level = get_level(df.rows[r].percentage)]]
           n_samples == Len(labelled)
           size == Min(100, n_samples \div 4)
       IN IF Cardinality(Levels(labelled)) = 1
          THEN \E indices \in Samples(n_samples, size) :
                  df' = [df EXCEPT !.rows =
                          [r \in DOMAIN labelled |->
                              IF \E i \in 1..size : indices[i] = r
                              THEN [labelled[r] EXCEPT
                                      !.awareness_level =
                                          DiversityLabel((CHOOSE i \in 1..size : indices[i] = r) - 1, size),
                                      !.sampled = TRUE]
                              ELSE labelled[r]]]
          ELSE df' = [df EXCEPT !.rows = labelled]
    /\ t_pc' = "Classified"
    /\ UNCHANGED <<dataset_file, answer_weights, questions, detailed_scores, X,
                   feature_names_file>>
    /\ UNCHANGED testerVars
    /\ UNCHANGED sessionVars
    /\ UNCHANGED <<bankVars, menu>>

\* Python's order on strings, by code point
LexLess(a, b) ==
    \E k \in 1..Len(b) :
        /\ \A j \in 1..(k - 1) : j <= Len(a) /\ a[j] = b[j]
        /\ (k > Len(a) \/ a[k] < b[k])

\* the texts of a set in ascending order
RECURSIVE SortTexts(_)
SortTexts(S) ==
    IF S = {} THEN <<>>
    ELSE LET least == CHOOSE t \in S : \A u \in S \ {t} : LexLess(t, u)
         IN <<least>> \o SortTexts(S \ {least})

\* Series.astype(str): a missing cell becomes the text 'nan'
AsStr(cell) == Cell(IF cell.missing THEN TNan ELSE cell.text)

\* Series.str.strip(): a missing cell stays missing
StrStrip(cell) == IF cell.missing THEN cell ELSE Cell(Strip(cell.text))

\* variant: the column is stripped without the conversion to text
AnswersNoAstype(rows, c) == [r \in DOMAIN rows |-> StrStrip(rows[r].cells[c])]

\* prepare_features: answers = self.df[question].astype(str).str.strip()
Answers(rows, c) == [r \in DOMAIN rows |-> StrStrip(AsStr(rows[r].cells[c]))]

\* pd.get_dummies(answers, prefix=f"Q{i+1}") (i counts from 1 here): one column
\* per distinct non-missing answer, in ascending order, named Q<i>_<answer>;
\* a missing answer has no category and gives a row of zeros
get_dummies(i, answers) ==
    LET values == SortTexts({answers[r].text :
                                r \in {x \in DOMAIN answers : ~answers[x].missing}})
    IN [columns |-> [k \in DOMAIN values |->
                       [question |-> i, value |-> values[k],
                        name |-> <<81>> \o Digits(i) \o <<95>> \o values[k]]],
        rows |-> [r \in DOMAIN answers |->
                    [k \in DOMAIN values |->
                        IF ~answers[r].missing /\ answers[r].text = values[k]
                        THEN 1 ELSE 0]]]

\* prepare_features: the loop over self.questions; the result is
\* self.df[feature_columns]
Features(frame, qs) ==
    LET RECURSIVE Extend(_, _)
        Extend(i, acc) ==
            IF i > Len(qs) THEN acc
            ELSE IF HasColumn(frame.columns, qs[i])
                 THEN LET dummies == get_dummies(i,
                              Answers(frame.rows, ColumnOf(frame.columns, qs[i])))
                      IN Extend(i + 1,
                           [columns |-> acc.columns \o dummies.columns,
                            rows |-> [r \in DOMAIN frame.rows |->
                                        acc.rows[r] \o dummies.rows[r]]])
                 ELSE Extend(i + 1, acc)
    IN Extend(1, [columns |-> <<>>, rows |-> [r \in DOMAIN frame.rows |-> <<>>]])

\* variant: the empty feature list is returned to the caller
prepare_features_no_check ==
    /\ UNCHANGED runs
    /\ t_pc = "Classified"
    /\ X' = Features(df, questions)
    /\ t_pc' = "Prepared"
    /\ UNCHANGED <<dataset_file, answer_weights, questions, df, detailed_scores,
                   feature_names_file>>
    /\ UNCHANGED testerVars
    /\ UNCHANGED sessionVars
    /\ UNCHANGED <<bankVars, menu>>

\* prepare_features: no feature column raises ValueError
prepare_features ==
    /\ UNCHANGED runs
    /\ t_pc = "Classified"
    /\ LET features == Features(df, questions)
       IN IF Len(features.columns) = 0
          THEN /\ X' = X
               /\ t_pc' = "Raised"
          ELSE /\ X' = features
               /\ t_pc' = "Prepared"
    /\ UNCHANGED <<dataset_file, answer_weights, questions, df, detailed_scores,
                   feature_names_file>>
    /\ UNCHANGED testerVars
    /\ UNCHANGED sessionVars
    /\ UNCHANGED <<bankVars, menu>>

\* variant: a single class is fitted and persisted like any other
train_model_fit_one_class ==
    /\ UNCHANGED runs
    /\ t_pc = "Prepared"
    /\ IF Len(X.columns) = 0 \/ Len(X.rows) = 0
       THEN /\ t_pc' = "Raised"
            /\ UNCHANGED <<model_file, feature_names_file>>
       ELSE IF FALSE
            THEN /\ t_pc' = "ReturnedNone"
                 /\ UNCHANGED <<model_file, feature_names_file>>
            ELSE /\ model_file' = Classifier(Levels(df.rows), Len(X.columns))
                 /\ feature_names_file' = [k \in DOMAIN X.columns |-> X.columns[k].name]
                 /\ t_pc' = "Trained"
    /\ UNCHANGED <<dataset_file, answer_weights, questions, df, detailed_scores, X>>
    /\ UNCHANGED <<sheet_file, results_file, database, clock, submissions>>
    /\ UNCHANGED sessionVars
    /\ UNCHANGED <<bankVars, menu>>

\* train_model after prepare_features: the checks, the fit, the two dumps
train_model ==
    /\ UNCHANGED runs
    /\ t_pc = "Prepared"
    /\ IF Len(X.columns) = 0 \/ Len(X.rows) = 0
       THEN /\ t_pc' = "Raised"
            /\ UNCHANGED <<model_file, feature_names_file>>
       ELSE IF Cardinality(Levels(df.rows)) < 2
            THEN /\ t_pc' = "ReturnedNone"
                 /\ UNCHANGED <<model_file, feature_names_file>>
            ELSE /\ model_file' = Classifier(Levels(df.rows), Len(X.columns))
                 /\ feature_names_file' = [k \in DOMAIN X.columns |-> X.columns[k].name]
                 /\ t_pc' = "Trained"
    /\ UNCHANGED <<dataset_file, answer_weights, questions, df, detailed_scores, X>>
    /\ UNCHANGED <<sheet_file, results_file, database, clock, submissions>>
    /\ UNCHANGED sessionVars
    /\ UNCHANGED <<bankVars, menu>>

NextTrainer ==
    \/ load_answer_sheet
    \/ load_dataset
    \/ calculate_user_scores
    \/ classify_awareness_level
    \/ prepare_features
    \/ train_model

SpecTrainer == InitTrainer /\ [][NextTrainer]_vars

-----------------------------------------------------------------------------
(* Claims about the training path                                          *)

\* every respondent wrote, under every question of the sheet, an option that
\* carries the highest mark of that question
AllMaxDataset ==
    /\ Len(sheet_file.questions) >= 1
    /\ \A r \in DOMAIN dataset_file :
          \A i \in DOMAIN sheet_file.questions :
              LET opts == sheet_file.questions[i].options IN
              /\ i <= Len(dataset_file[r])
              /\ ~dataset_file[r][i].missing
              /\ \E o \in DOMAIN opts :
                    /\ opts[o].marks = MaxMark(opts)
                    /\ Lower(Strip(dataset_file[r][i].text)) = Lower(opts[o].text)

\* C9: when every respondent gives the maximum-mark option for every
\* question, every row has percentage 100.0 and awareness_level Expert after
\* calculate_user_scores and classify_awareness_level.
C9_AllMaxIsExpert ==
    (t_pc = "Classified" /\ AllMaxDataset) =>
        \A r \in DOMAIN df.rows :
            /\ df.rows[r].percentage = Frac(100, 1)
            /\ df.rows[r].awareness_level = "Expert"

\* C10: an answer that equals an option's text case-insensitively is scored
\* with that option's weight and level, a weight of 0 included; the partial
\* match is consulted only when no option matches exactly.
C10_ExactMatchWins ==
    t_pc \in {"Scored", "Classified"} =>
        \A r \in DOMAIN detailed_scores :
            \A q \in DOMAIN detailed_scores[r] :
                LET d == detailed_scores[r][q]
                    opts == answer_weights[DictGet(answer_weights, d.key)].value
                    exact == {o \in DOMAIN opts : Lower(d.value.answer) = Lower(opts[o].key)}
                IN exact # {} =>
                      \E o \in exact :
                          /\ d.value.score = opts[o].value.weight
                          /\ d.value.level = opts[o].value.level

\* calculate_user_scores has run
TrainerScored == Len(detailed_scores) > 0

\* the answer text matches no option of the question, exactly or in part
NoOptionMatches(user_answer, opts) ==
    \A o \in DOMAIN opts :
        /\ Lower(user_answer) # Lower(opts[o].key)
        /\ ~PartialMatch(user_answer, opts[o].key)

C12_PercentageOverMatched ==
    TrainerScored =>
        \A r \in DOMAIN df.rows :
            LET matched == Len(detailed_scores[r])
            IN matched > 0 =>
                  df.rows[r].percentage = Frac(df.rows[r].total_score * 100, matched * 10)

-----------------------------------------------------------------------------
(* The two paths side by side: a behaviour is a tester session or a        *)
(* training run                                                            *)

InitPaths == Init \/ InitTrainer

\* the tester steps belong to the behaviours without a trainer object
NextPaths == (t_pc = "Idle" /\ Next) \/ NextTrainer

SpecPaths == InitPaths /\ [][NextPaths]_vars

\* classify_awareness_level has run
TrainerClassified == Len(df.rows) > 0 /\ df.rows[1].awareness_level # ""

\* the label is the tier of the percentage in the table 70 / 45 / 20
FollowsLooserTable(p, label) ==
    /\ (label = "Expert") <=> PctGE(p, 70)
    /\ (label = "Intermediate") <=> (PctGE(p, 45) /\ PctLT(p, 70))
    /\ (label = "Basic") <=> (PctGE(p, 20) /\ PctLT(p, 45))
    /\ (label = "Beginner") <=> PctLT(p, 20)

LooserTier(p) ==
    CHOOSE label \in {"Expert", "Intermediate", "Basic", "Beginner"} :
        FollowsLooserTable(p, label)

\* the percentage lies where the tables 75 / 50 / 25 and 70 / 45 / 20 differ
BetweenTables(p) ==
    \/ PctGE(p, 70) /\ PctLT(p, 75)
    \/ PctGE(p, 45) /\ PctLT(p, 50)
    \/ PctGE(p, 20) /\ PctLT(p, 25)

\* the runtime tier is never the one of the table 70 / 45 / 20 where the two
\* tables differ
RuntimeKeepsStricterTable ==
    (Computed /\ user_scores # <<>> /\ BetweenTables(percentage)) =>
        ~FollowsLooserTable(percentage, overall_level)

\* C13 (as stated): after classify_awareness_level every row carries the tier
\* of its percentage in the table 70 / 45 / 20, and calculate_results never
\* uses that table.
C13_LooserTableOnly ==
    /\ TrainerClassified =>
          \A r \in DOMAIN df.rows :
              FollowsLooserTable(df.rows[r].percentage, df.rows[r].awareness_level)
    /\ RuntimeKeepsStricterTable

\* the rows whose label is not the tier of their percentage
Relabelled == {r \in DOMAIN df.rows :
                  ~FollowsLooserTable(df.rows[r].percentage, df.rows[r].awareness_level)}

\* C13 (amended): every row carries the tier of its percentage in the table
\* 70 / 45 / 20, except that when all rows fall in one tier at most
\* min(100, n \div 4) rows carry another of 'Basic', 'Intermediate', 'Expert';
\* calculate_results never uses that table.
C13_LooserTableUnlessRelabelled ==
    /\ TrainerClassified =>
          /\ Cardinality(Relabelled) <= Min(100, Len(df.rows) \div 4)
          /\ \A r \in Relabelled :
                df.rows[r].awareness_level \in {"Basic", "Intermediate", "Expert"}
          /\ (\E a, b \in DOMAIN df.rows :
                 ~FollowsLooserTable(df.rows[a].percentage, LooserTier(df.rows[b].percentage)))
                => Relabelled = {}
    /\ RuntimeKeepsStricterTable

\* a row at exactly 70% is 'Expert', next to a row of another tier
C13_Witness ==
    /\ TrainerClassified
    /\ Relabelled = {}
    /\ \E a, b \in DOMAIN df.rows :
          /\ df.rows[a].percentage = Frac(70, 1)
          /\ df.rows[a].awareness_level = "Expert"
          /\ df.rows[b].awareness_level = "Beginner"

\* prepare_features has returned X
TrainerPrepared == t_pc \in {"Prepared", "Trained", "ReturnedNone"}

\* the positions in X of the indicator columns of question i
IndicatorColumns(i) == {k \in DOMAIN X.columns : X.columns[k].question = i}

\* C14: in the feature matrix of prepare_features every row has exactly one
\* indicator set among the columns of each question that has a dataset
\* column; a question with missing values has exactly one column for them
\* (value 'nan'), which the rows with a missing value set; no row is dropped.
C14_OneHot ==
    TrainerPrepared =>
        /\ Len(X.rows) = Len(dataset_file)
        /\ \A i \in DOMAIN questions :
              HasColumn(df.columns, questions[i]) =>
                  /\ \A r \in DOMAIN X.rows :
                        /\ \A k \in IndicatorColumns(i) : X.rows[r][k] \in {0, 1}
                        /\ Cardinality({k \in IndicatorColumns(i) : X.rows[r][k] = 1}) = 1
                  /\ (\E r \in DOMAIN dataset_file : dataset_file[r][i].missing) =>
                        /\ Cardinality({k \in IndicatorColumns(i) :
                                           X.columns[k].value = TNan}) = 1
                        /\ \A r \in DOMAIN dataset_file :
                              dataset_file[r][i].missing =>
                                  \E k \in IndicatorColumns(i) :
                                      X.columns[k].value = TNan /\ X.rows[r][k] = 1

\* one respondent left question 1 empty, the others answered it: the question
\* has two columns and each row sets one of them
C14_Witness ==
    /\ TrainerPrepared
    /\ Len(X.rows) >= 2
    /\ dataset_file[Len(dataset_file)][1].missing
    /\ ~dataset_file[1][1].missing
    /\ Cardinality(IndicatorColumns(1)) = 2
    /\ \E k \in IndicatorColumns(1) :
          /\ X.columns[k].name = <<81, 49, 95>> \o TNan
          /\ X.rows[Len(X.rows)][k] = 1
          /\ X.rows[1][k] = 0

\* load_dataset has built the frame
TrainerDatasetLoaded == Len(df.rows) > 0

\* the columns of the CSV whose first line carries the text of question i
HeaderMatches(i) ==
    {c \in DOMAIN dataset_file[1] :
        ~dataset_file[1][c].missing /\ dataset_file[1][c].text = questions[i]}

\* C15: when the first line of the dataset contains question texts, the frame
\* column of each such question holds the CSV column under that header and the
\* header line is not a respondent; only when no header text matches are the
\* first columns taken by position.
C15_HeaderAlignment ==
    TrainerDatasetLoaded =>
        IF \E i \in DOMAIN questions : HeaderMatches(i) # {}
        THEN /\ Len(df.rows) = Len(dataset_file) - 1
             /\ \A i \in DOMAIN questions : \A c \in HeaderMatches(i) :
                   /\ HasColumn(df.columns, questions[i])
                   /\ \A r \in DOMAIN df.rows :
                         df.rows[r].cells[ColumnOf(df.columns, questions[i])]
                             = dataset_file[r + 1][c]
        ELSE /\ Len(df.rows) = Len(dataset_file)
             /\ \A i \in DOMAIN questions :
                   i <= QuestionColumns =>
                       /\ df.columns[i] = questions[i]
                       /\ \A r \in DOMAIN df.rows :
                             df.rows[r].cells[i] = dataset_file[r][i]

\* no question of the answer sheet names a column of the frame
NoColumnAligns == \A i \in DOMAIN questions : ~HasColumn(df.columns, questions[i])

\* C16: when no dataset column aligns with a question of the answer sheet,
\* train_model never gets past prepare_features, which raises, and
\* phishing_model.pkl and phishing_feature_names.pkl are not written.
C16_NoAlignmentRaises ==
    /\ [](NoColumnAligns =>
            /\ t_pc \notin {"Prepared", "Trained", "ReturnedNone"}
            /\ model_file = NoModel
            /\ feature_names_file = <<>>)
    /\ [][(NoColumnAligns /\ t_pc = "Classified") => t_pc' = "Raised"]_vars

\* a sheet without questions: the rows were scored and classified, then
\* prepare_features raised and nothing was written
C16_Witness ==
    /\ t_pc = "Raised"
    /\ TrainerClassified
    /\ NoColumnAligns
    /\ model_file = NoModel
    /\ feature_names_file = <<>>

\* C17: an answer sheet file without a 'questions' list makes the load fail:
\* neither loader goes on with an empty answer key (the trainer does not
\* reach the dataset, the tester does not finish load_components).
C17_MalformedKeyFails ==
    (sheet_file.exists /\ ~sheet_file.has_questions) =>
        /\ t_pc \in {"Idle", "New", "Raised"}
        /\ df = NoFrame
        /\ pc = "New"

-----------------------------------------------------------------------------
(* Claims about the feedback                                               *)

\* the bank was consulted for this explanation
BankConsulted(e) ==
    e.question_id # <<>> /\ e.option_label # "" /\ user_profile # NoProfile

\* the entries of the bank for the question and option of an explanation
EntriesFor(e) ==
    {k \in DOMAIN explanation_bank :
        /\ NormalizeQid(explanation_bank[k].questionId) = NormalizeQid(e.question_id)
        /\ explanation_bank[k].option = e.option_label}

\* those of them written for the profile of the user
EntriesForProfile(e) ==
    {k \in EntriesFor(e) :
        /\ explanation_bank[k].profile.gender = user_profile.gender
        /\ explanation_bank[k].profile.proficiency = user_profile.proficiency
        /\ explanation_bank[k].profile.education = user_profile.education}

LowScores == {i \in DOMAIN user_scores : user_scores[i].value.score < 10}

NonEmptyText(t) == t.header # "" \/ t.body # ""

\* C20: provide_feedback always completes, prints one non-empty explanation
\* for every question scored below 10 (empty or missing bank, missing question
\* id or option label, no user profile included), and the guidance of every
\* priority area is a non-empty text.
C20_FeedbackNeverEmpty ==
    /\ [][pc = "Feedback" => pc' \in {"Save", "Returned"}]_vars
    /\ [](FeedbackGiven =>
            /\ Len(feedback.explanations) = Cardinality(LowScores)
            /\ \A i \in DOMAIN feedback.explanations :
                  /\ \E k \in LowScores :
                        user_scores[k].key = feedback.explanations[i].question
                  /\ NonEmptyText(feedback.explanations[i].text)
            /\ Len(feedback.guidance) = Len(priority_areas)
            /\ \A a \in DOMAIN feedback.guidance :
                  /\ feedback.guidance[a].lines # <<>>
                  /\ \A l \in DOMAIN feedback.guidance[a].lines :
                        feedback.guidance[a].lines[l] # "")

\* no bank, no profile, a question without id and an option without label:
\* both answers got the basic explanation, and the level 'novice' got guidance
C20_Witness ==
    /\ FeedbackGiven
    /\ explanation_bank = <<>>
    /\ user_profile = NoProfile
    /\ \E i, j \in DOMAIN feedback.explanations :
          /\ feedback.explanations[i].question_id = <<>>
          /\ feedback.explanations[i].text.kind = "BASIC"
          /\ feedback.explanations[j].question_id # <<>>
          /\ feedback.explanations[j].option_label = ""
          /\ feedback.explanations[j].text.kind = "BASIC"
    /\ \E a \in DOMAIN feedback.guidance :
          /\ priority_areas[a].current_level = "novice"
          /\ feedback.guidance[a].topic = "url_analysis"
          /\ Len(feedback.guidance[a].lines) = 2

-----------------------------------------------------------------------------
(* The front ends: main() of phishing_main.py and phishing_main_runner.py  *)

MaxMenuOps == 3   \* passes of the menu loop in one behaviour

\* what the user types at the menu prompt, after strip()
MenuChoices == {"1", "2", "3", "4", "5", "6", "7", "8", "x"}

\* the number of the Exit entry
ExitChoice(front_end) == IF front_end = "phishing_main" THEN "8" ELSE "6"

\* how a call made inside a try block ends
TrainOutcomes == {"Trained", "ReturnedNone", "Raised"}
AssessOutcomes == {"ReturnedDict", "ReturnedNone", "Raised"}
CallOutcomes == {"Returned", "Raised"}

\* phishing_form.csv: absent, or one line of ten cells
MenuDatasets == { <<>>, << [c \in 1..10 |-> Cell(TZzz)] >> }

\* the classifier that option 1 persists
MenuModel == Classifier({"Basic", "Expert"}, 1)

\* the totals of the assessments that option 2 runs to the end, out of 40
MenuTotals == {10, 20, 30, 40}

\* the result of an assessment of four questions
MenuUserData(total) ==
    UserData(Profile(NameAl, "Male", "O/L", "School"), total, Frac(total * 100, 40),
             TierFor(Frac(total * 100, 40)))

ResourceLevels == {"beginner", "intermediate", "advanced"}

\* variant: the thresholds of calculate_results, the two lower tiers together
assess_knowledge_level_by_tier(quiz_score) ==
    IF PctGE(quiz_score, 75) THEN "advanced"
    ELSE IF PctGE(quiz_score, 50) THEN "intermediate"
    ELSE "beginner"

\* PhishingEducationalManager.assess_knowledge_level
assess_knowledge_level(quiz_score) ==
    IF PctGE(quiz_score, 80) THEN "advanced"
    ELSE IF PctGE(quiz_score, 60) THEN "intermediate"
    ELSE "beginner"

\* run_educational_session: the level whose resources are displayed, and the
\* tier the score came with ("" when the user selected the level)
Session(has_score, quiz_score, tier, selected) ==
    IF has_score
    THEN [level |-> assess_knowledge_level(quiz_score), tier |-> tier]
    ELSE [level |-> selected, tier |-> ""]

InitMenu ==
    /\ menu \in {[MenuIdle EXCEPT !.front_end = fe, !.pc = "Prompt"] :
                    fe \in {"phishing_main", "phishing_main_runner"}}
    /\ sheet_file \in {SheetAbsent, SheetTwo}
    /\ bank_file = BankAbsent
    /\ model_file \in {NoModel, MenuModel}
    /\ runs = <<>>
    /\ SessionInit
    /\ results_file = NoFile
    /\ database \in {DbAbsent, DbEarlier}
    /\ clock = 1
    /\ submissions = <<>>
    /\ dataset_file \in MenuDatasets
    /\ answer_weights = <<>>
    /\ questions = <<>>
    /\ df = NoFrame
    /\ detailed_scores = <<>>
    /\ X = NoFrame
    /\ feature_names_file = <<>>
    /\ t_pc = "Idle"

\* what no pass of the menu loop changes
menuFrame == <<sheet_file, bank_file, explanation_bank, feedback, sessionVars,
               dataset_file, answer_weights, questions, df, detailed_scores, X, runs, t_pc>>

\* the loop is at its prompt and the user types `choice`
Typed(choice) ==
    /\ menu.pc = "Prompt"
    /\ Len(menu.log) < MaxMenuOps
    /\ choice \in MenuChoices

Logged(choice, outcome, pc2) ==
    [menu EXCEPT !.log = Append(menu.log, [choice |-> choice, outcome |-> outcome]),
                 !.pc = pc2]

\* variant: option 1 without the try block
menu_train_no_try(outcome) ==
    /\ Typed("1")
    /\ IF ~sheet_file.exists \/ dataset_file = <<>>
       THEN /\ menu' = Logged("1", "Skipped", "Prompt")
            /\ UNCHANGED <<model_file, feature_names_file>>
       ELSE /\ menu' = Logged("1", outcome, IF outcome = "Raised" THEN "Crashed" ELSE "Prompt")
            /\ IF outcome = "Trained"
               THEN model_file' = MenuModel /\ feature_names_file' = << <<81, 49, 95>> \o TZzz >>
               ELSE UNCHANGED <<model_file, feature_names_file>>
    /\ UNCHANGED <<results_file, database, clock, submissions>>
    /\ UNCHANGED menuFrame

\* option 1: the file checks, then train_model inside try / except Exception
menu_train(outcome) ==
    /\ Typed("1")
    /\ IF ~sheet_file.exists \/ dataset_file = <<>>
       THEN /\ menu' = Logged("1", "Skipped", "Prompt")
            /\ UNCHANGED <<model_file, feature_names_file>>
       ELSE /\ menu' = Logged("1", outcome, "Prompt")
            /\ IF outcome = "Trained"
               THEN model_file' = MenuModel /\ feature_names_file' = << <<81, 49, 95>> \o TZzz >>
               ELSE UNCHANGED <<model_file, feature_names_file>>
    /\ UNCHANGED <<results_file, database, clock, submissions>>
    /\ UNCHANGED menuFrame

\* option 2: the model file check, then PhishingTester().run_assessment()
\* inside try / except Exception; a dict result sets last_quiz_score
\* (last_level keeps, as history, the tier that came with the score)
menu_assess(outcome, total) ==
    /\ Typed("2")
    /\ IF model_file.none
       THEN /\ menu' = Logged("2", "Skipped", "Prompt")
            /\ UNCHANGED <<results_file, database, clock, submissions>>
       ELSE IF outcome = "ReturnedDict"
       THEN /\ menu' = [Logged("2", outcome, "Prompt") EXCEPT
                          !.has_score = TRUE,
                          !.last_quiz_score = MenuUserData(total).percentage,
                          !.last_level = MenuUserData(total).overall_level]
            /\ results_file' = [exists |-> TRUE, data |-> MenuUserData(total)]
            /\ database' = save_to_assessment_database(database, MenuUserData(total), clock)
            /\ submissions' = Append(submissions, MenuUserData(total))
            /\ clock' = clock + 1
       ELSE /\ menu' = Logged("2", outcome, "Prompt")
            /\ UNCHANGED <<results_file, database, clock, submissions>>
    /\ UNCHANGED <<model_file, feature_names_file>>
    /\ UNCHANGED menuFrame

\* option 3: run_educational_session with the last score, or with the level
\* the user selects; sub-choice A (again # "none") runs a second session
\* with a selected level; all inside try / except Exception
menu_education(outcome, selected, again) ==
    /\ Typed("3")
    /\ selected \in ResourceLevels
    /\ again \in ResourceLevels \cup {"none"}
    /\ LET first == Session(menu.has_score, menu.last_quiz_score, menu.last_level, selected)
       IN menu' = [Logged("3", outcome, "Prompt") EXCEPT
                     !.served = IF outcome = "Raised" THEN <<>>
                                ELSE IF again = "none" THEN <<first>>
                                ELSE <<first, [level |-> again, tier |-> ""]>>]
    /\ UNCHANGED <<model_file, feature_names_file, results_file, database, clock, submissions>>
    /\ UNCHANGED menuFrame

\* options 4, 5 and, in phishing_main.py, 6: the read-only checks
menu_check(choice) ==
    /\ Typed(choice)
    /\ choice \in {"4", "5"} \/ (choice = "6" /\ menu.front_end = "phishing_main")
    /\ menu' = Logged(choice, "Returned", "Prompt")
    /\ UNCHANGED <<model_file, feature_names_file, results_file, database, clock, submissions>>
    /\ UNCHANGED menuFrame

\* option 7 of phishing_main.py: the database viewer; clear is True when the
\* user asks to clear the database and confirms with 'yes'
menu_database(clear) ==
    /\ Typed("7")
    /\ menu.front_end = "phishing_main"
    /\ menu' = Logged("7", "Returned", "Prompt")
    /\ database' = IF clear THEN DbAbsent ELSE database
    /\ UNCHANGED <<model_file, feature_names_file, results_file, clock, submissions>>
    /\ UNCHANGED menuFrame

\* the Exit entry: break
menu_exit ==
    /\ Typed(ExitChoice(menu.front_end))
    /\ menu' = Logged(ExitChoice(menu.front_end), "Exit", "Exited")
    /\ UNCHANGED <<model_file, feature_names_file, results_file, database, clock, submissions>>
    /\ UNCHANGED menuFrame

\* anything else: 'Invalid choice!'
menu_invalid(choice) ==
    /\ Typed(choice)
    /\ \/ choice = "x"
       \/ choice \in {"7", "8"} /\ menu.front_end = "phishing_main_runner"
    /\ menu' = Logged(choice, "Invalid", "Prompt")
    /\ UNCHANGED <<model_file, feature_names_file, results_file, database, clock, submissions>>
    /\ UNCHANGED menuFrame

NextMenu ==
    \/ \E outcome \in TrainOutcomes : menu_train(outcome)
    \/ \E outcome \in AssessOutcomes, total \in MenuTotals : menu_assess(outcome, total)
    \/ \E outcome \in CallOutcomes, selected \in ResourceLevels,
          again \in ResourceLevels \cup {"none"} : menu_education(outcome, selected, again)
    \/ \E choice \in MenuChoices : menu_check(choice)
    \/ \E clear \in BOOLEAN : menu_database(clear)
    \/ menu_exit
    \/ \E choice \in MenuChoices : menu_invalid(choice)

SpecMenu == InitMenu /\ [][NextMenu]_vars

\* C18: an error raised by a training or assessment run ends that operation
\* only: the loop is back at its prompt after it, and the loop is left only
\* by the Exit entry.
C18_ErrorsReturnToMenu ==
    /\ [](\A i \in DOMAIN menu.log :
            (menu.log[i].choice \in {"1", "2"} /\ menu.log[i].outcome = "Raised") =>
                (i < Len(menu.log) \/ menu.pc = "Prompt"))
    /\ [][(menu.pc = "Prompt" /\ menu'.pc # "Prompt") =>
            /\ menu'.pc = "Exited"
            /\ menu'.log[Len(menu'.log)].choice = ExitChoice(menu.front_end)]_vars

\* a training run raised, then an assessment run raised, and the loop is at
\* its prompt again
C18_Witness ==
    /\ menu.pc = "Prompt"
    /\ Len(menu.log) = 2
    /\ menu.log[1] = [choice |-> "1", outcome |-> "Raised"]
    /\ menu.log[2] = [choice |-> "2", outcome |-> "Raised"]

-----------------------------------------------------------------------------
(* Claims about the model artifacts and the quiz session                   *)

\* conduct_quiz replayed on the questions of an answer key with the numbers
\* accepted at the prompts
RECURSIVE ReplayScores(_, _, _)
ReplayScores(qd, cs, i) ==
    IF i = 0 THEN <<>>
    ELSE LET selected_option == qd[i].options[cs[i]]
         IN DictPut(ReplayScores(qd, cs, i - 1), qd[i].question,
                    [answer |-> selected_option.text,
                     score |-> selected_option.marks,
                     level |-> selected_option.level])

\* the result that the answer key and the accepted choices determine
ResultOf(f, cs) ==
    LET us == ReplayScores(LoadedQuestions(f), cs, Len(cs))
        total == SumSeq(Scores(us))
    IN IF us = <<>> THEN <<0, Zero, "Beginner">>
       ELSE <<total, Frac(total * 100, Len(us) * 10),
              TierFor(Frac(total * 100, Len(us) * 10))>>

\* C21: the total score, the percentage and the tier of a session are
\* determined by the answer key and the sequence of accepted choices alone:
\* whatever classifier and feature-name list were loaded, they are the same.
C21_ResultIndependentOfModel ==
    Computed => <<total_score, percentage, overall_level>> = ResultOf(sheet_file, choices)

\* a session run with a classifier that does not know the tier 'Basic' and
\* without feature names ends in that tier
C21_Witness ==
    /\ Computed
    /\ entry = "run_assessment"
    /\ ~model.none
    /\ "Basic" \notin model.classes
    /\ feature_names = <<>>
    /\ overall_level = "Basic"
    /\ Len(choices) = Len(questions_data)
    /\ Len(choices) >= 2

-----------------------------------------------------------------------------
(* Claims about the fallback match and the answer key of the trainer       *)

\* the words of a text, lower-cased
WordSet(t) == {Split(Lower(t))[k] : k \in DOMAIN Split(Lower(t))}

\* the option shares a whole word, among its first three, with the answer
SharesWord(user_answer, option_text) ==
    LET words == Take(Split(Lower(option_text)), 3)
    IN \E w \in DOMAIN words : words[w] \in WordSet(user_answer)

\* C22: an answer that equals no option is given the weight and level of the
\* first option, in the order of the answer key, that shares a whole word among
\* its first three words with the words of the answer; when no option shares
\* such a word none is selected and the answer keeps 0 / 'Wrong'.
C22_FallbackWholeWords ==
    TrainerScored =>
        \A r \in DOMAIN detailed_scores :
            \A q \in DOMAIN detailed_scores[r] :
                LET d == detailed_scores[r][q]
                    opts == answer_weights[DictGet(answer_weights, d.key)].value
                    exact == {o \in DOMAIN opts : Lower(d.value.answer) = Lower(opts[o].key)}
                    sharing == {o \in DOMAIN opts : SharesWord(d.value.answer, opts[o].key)}
                IN exact = {} =>
                      IF sharing = {}
                      THEN d.value.score = 0 /\ d.value.level = "Wrong"
                      ELSE /\ d.value.score = opts[FirstEntry(sharing)].value.weight
                           /\ d.value.level = opts[FirstEntry(sharing)].value.level


\* lower-cased and trimmed
Normalized(t) == Strip(Lower(t))

\* C23: when two options of a question have the same text after lower-casing
\* and trimming, an answer with that text is given the weight and level of
\* the one loaded last.
C23_LastLoadedWins ==
    TrainerScored =>
        \A r \in DOMAIN detailed_scores :
            \A q \in DOMAIN detailed_scores[r] :
                LET d == detailed_scores[r][q]
                    opts == answer_weights[DictGet(answer_weights, d.key)].value
                    same == {o \in DOMAIN opts :
                                Normalized(opts[o].key) = Normalized(d.value.answer)}
                    last == CHOOSE o \in same : \A p \in same : p <= o
                IN Cardinality(same) >= 2 =>
                      /\ d.value.score = opts[last].value.weight
                      /\ d.value.level = opts[last].value.level

-----------------------------------------------------------------------------
(* Claims about the synthetic diversity injection                          *)

\* the rows that the diversity loop assigned a label to
Sampled == {r \in DOMAIN df.rows : df.rows[r].sampled}

\* the tiers of the dataset before the injection
TiersBefore == {get_level(df.rows[r].percentage) : r \in DOMAIN df.rows}

\* C24: the injection relabels rows only when the whole dataset has exactly
\* one tier, relabels at most min(100, n \div 4) of the n rows, gives every
\* relabelled row a tier that the dataset did not have before, leaves the
\* other labels alone and changes no total_score or percentage.
C24_InjectionBounded ==
    /\ [](TrainerClassified =>
            /\ (Sampled # {} => Cardinality(TiersBefore) = 1)
            /\ Cardinality(Sampled) <= Min(100, Len(df.rows) \div 4)
            /\ \A r \in Sampled : df.rows[r].awareness_level \notin TiersBefore
            /\ \A r \in DOMAIN df.rows \ Sampled :
                  df.rows[r].awareness_level = get_level(df.rows[r].percentage))
    /\ [][t_pc = "Scored" =>
            \A r \in DOMAIN df.rows :
                /\ df'.rows[r].total_score = df.rows[r].total_score
                /\ df'.rows[r].percentage = df.rows[r].percentage]_vars

\* C25: when every row of a non-empty dataset falls in one tier, the labels
\* that classify_awareness_level leaves hold at least two distinct tiers.
C25_TwoTiersAfterInjection ==
    (TrainerClassified /\ Len(df.rows) > 0 /\ Cardinality(TiersBefore) = 1) =>
        Cardinality(Levels(df.rows)) >= 2

-----------------------------------------------------------------------------
(* Training runs in one directory: the artifacts of earlier runs may be    *)
(* there, and train_model may be run a second time on the same files       *)

RunSheets == {TrainerSheet(n, OptsPlain) : n \in {1, 10}}

RunDatasets(sheet) ==
    {Dataset(sheet, 10, k, a, 0, a) : k \in 1..MaxRows, a \in {"max", "zero"}}
    \cup {Dataset(sheet, 10, k, "max", 1, "zero") : k \in 1..(MaxRows - 1)}

InitRuns ==
    /\ sheet_file \in RunSheets
    /\ bank_file = BankAbsent
    /\ menu = MenuIdle
    /\ \E a \in Artifacts : model_file = a.model /\ feature_names_file = a.feature_names
    /\ runs = <<>>
    /\ SessionInit
    /\ results_file = NoFile
    /\ database = DbAbsent
    /\ clock = 1
    /\ submissions = <<>>
    /\ dataset_file \in RunDatasets(sheet_file)
    /\ answer_weights = <<>>
    /\ questions = <<>>
    /\ df = NoFrame
    /\ detailed_scores = <<>>
    /\ X = NoFrame
    /\ t_pc = "New"

\* the script is started again: a new PhishingModelTrainer on the same paths
rerun ==
    /\ t_pc \in {"Trained", "ReturnedNone", "Raised"}
    /\ runs = <<>>
    /\ runs' = Append(runs, [r \in DOMAIN df.rows |-> df.rows[r].awareness_level])
    /\ answer_weights' = <<>>
    /\ questions' = <<>>
    /\ df' = NoFrame
    /\ detailed_scores' = <<>>
    /\ X' = NoFrame
    /\ t_pc' = "New"
    /\ UNCHANGED <<dataset_file, feature_names_file>>
    /\ UNCHANGED testerVars
    /\ UNCHANGED sessionVars
    /\ UNCHANGED <<bankVars, menu>>

NextRuns == NextTrainer \/ rerun

SpecRuns == InitRuns /\ [][NextRuns]_vars

\* C26: a second run of train_model on the same dataset file and answer key
\* gives every row the awareness_level the first run gave it, the rows
\* relabelled by the diversity injection included, and no run changes the
\* dataset file.
C26_DeterministicLabels ==
    /\ []((runs # <<>> /\ TrainerClassified) =>
            [r \in DOMAIN df.rows |-> df.rows[r].awareness_level] = runs[1])
    /\ [][dataset_file' = dataset_file]_vars

\* the labels hold exactly one class at the split step of train_model
OneClassAtSplit ==
    /\ t_pc = "Prepared"
    /\ Len(X.columns) > 0
    /\ Len(X.rows) > 0
    /\ Cardinality(Levels(df.rows)) = 1

\* C29: when the labels hold exactly one class at the split step, train_model
\* returns (None, 0.0) and leaves phishing_model.pkl and
\* phishing_feature_names.pkl as they were.
C29_OneClassReturnsNone ==
    /\ [][OneClassAtSplit =>
            /\ t_pc' = "ReturnedNone"
            /\ UNCHANGED <<model_file, feature_names_file>>]_vars
    /\ [](t_pc = "ReturnedNone" => Cardinality(Levels(df.rows)) = 1)

\* a run returned (None, 0.0) in a directory that holds the classifier and
\* the feature names of an earlier run
C29_Witness ==
    /\ t_pc = "ReturnedNone"
    /\ model_file = Classifier({"Basic", "Expert"}, 2)
    /\ Len(feature_names_file) = 2
    /\ Cardinality(Levels(df.rows)) = 1


\* the resources that fit a tier
Appropriate(tier, level) ==
    \/ tier = "Expert" /\ level = "advanced"
    \/ tier = "Intermediate" /\ level = "intermediate"
    \/ tier \in {"Basic", "Beginner"} /\ level = "beginner"

\* C27: the resources displayed from an assessment score fit the tier the
\* assessment assigned: 'advanced' for 'Expert', 'intermediate' for
\* 'Intermediate', 'beginner' for 'Basic' and 'Beginner'.
C27_TierAppropriateContent ==
    \A i \in DOMAIN menu.served :
        menu.served[i].tier # "" => Appropriate(menu.served[i].tier, menu.served[i].level)

-----------------------------------------------------------------------------
(* Claims about the guard of run_assessment and the end of the quiz        *)

\* the model or the answer sheet is not loaded
NotLoaded == model.none \/ answer_sheet = <<>>

\* C28: when the model or the answer sheet is not loaded (an answer sheet
\* with zero questions included) run_assessment returns at once: no profile
\* is collected, no question presented, no result computed, and the results
\* file and the assessment database are left as they were.
C28_GuardedAssessmentIsSilent ==
    /\ [][(pc = "Loaded" /\ entry' = "run_assessment" /\ NotLoaded) =>
            /\ pc' = "Returned"
            /\ UNCHANGED <<user_profile, qi, user_responses, user_scores, choices,
                           overall_level, feedback, results_file, database,
                           submissions>>]_vars
    /\ []((entry = "run_assessment" /\ NotLoaded) =>
            /\ pc = "Returned"
            /\ user_profile = NoProfile
            /\ qi = 0
            /\ choices = <<>>
            /\ overall_level = ""
            /\ feedback = NoFeedback
            /\ results_file = NoFile
            /\ database \in {DbAbsent, DbEarlier}
            /\ submissions = <<>>)

\* a model was loaded, the answer sheet has an empty question list, and
\* run_assessment returned with the earlier database in place
C28_Witness ==
    /\ entry = "run_assessment"
    /\ pc = "Returned"
    /\ ~model.none
    /\ sheet_file = SheetEmpty
    /\ answer_sheet = <<>>
    /\ database = DbEarlier
    /\ results_file = NoFile


\* the user types, at the prompt of question qi, a number of one of its options
valid_input ==
    /\ pc = "Prompt"
    /\ \E choice \in 1..MaxChoice :
          /\ choice <= Len(questions_data[qi].options)
          /\ submit_answer(choice)

\* the session when conduct_quiz, once called, starts, and the user, however
\* often a wrong input is typed, goes on to type a valid one where there is one
SpecLive ==
    /\ Init
    /\ [][Next]_vars
    /\ WF_vars(conduct_quiz_begin)
    /\ WF_vars(valid_input)

\* every loaded question has at least one option
AllHaveOptions == \A i \in DOMAIN questions_data : questions_data[i].options # <<>>

\* conduct_quiz has returned
QuizDone == pc \in {"Calculate", "Feedback", "Save"} \/ (pc = "Returned" /\ overall_level # "")

\* the prompt of a question without options
Blocked == pc = "Prompt" /\ questions_data[qi].options = <<>>

\* C30: with a user who eventually types an in-range number at each prompt,
\* conduct_quiz returns if and only if every loaded question has an option;
\* at a question without options no input is accepted and the session stays
\* at that prompt forever.
C30_QuizCompletion ==
    /\ []((pc = "QuizStart" /\ AllHaveOptions) => <>QuizDone)
    /\ []((QuizDone /\ (entry = "run_assessment" \/ questions_data # <<>>)) => AllHaveOptions)
    /\ [](Blocked => []Blocked)
    /\ [][Blocked => (qi' = qi /\ UNCHANGED <<user_responses, user_scores, choices>>)]_vars

\* the session is at the prompt of a question without options after a number
\* was typed there
C30_Witness ==
    /\ Blocked
    /\ qi = 2
    /\ Len(choices) = 1
    /\ last_input = 1

====
